---- MODULE Spec2Model ----
(***************************************************************************)
(* Financial crime graph analysis engine: analyzeTransactions and the      *)
(* detectors it calls (legitimacy filter, cycle, smurfing, shell-network   *)
(* detection, ring assembly, scoring, projection).                         *)
(*                                                                         *)
(* Conventions of the model                                                *)
(*  - account ids are strings; Chars gives the characters of each id so    *)
(*    that toUpperCase, includes and the default string order of sort()    *)
(*    are computed character by character;                                 *)
(*  - a JS Set or Map is a duplicate-free sequence in insertion order; a   *)
(*    Map is a sequence of records [key, value];                           *)
(*  - a timestamp text is the number of hours it denotes after the first   *)
(*    instant of the batch, or BadTimestamp for a text Date cannot parse;  *)
(*  - amounts are whole multiples of 10 dollars, written in that unit;     *)
(*    scores are kept in tenths of a point (Math.round(x * 10) / 10 keeps  *)
(*    one decimal), so 90.0 is 900.                                        *)
(***************************************************************************)
EXTENDS Integers, Sequences, FiniteSets, TLC

VARIABLES transactions, spent, pc, run, result

vars == <<transactions, spent, pc, run, result>>

-----------------------------------------------------------------------------
(* Generic helpers for insertion-ordered collections *)

Range(s) == {s[i] : i \in 1..Len(s)}

Contains(s, x) == \E i \in 1..Len(s) : s[i] = x

\* Set.add: append unless present
SetAdd(s, x) == IF Contains(s, x) THEN s ELSE Append(s, x)

IndexOf(s, x) == IF Contains(s, x) THEN CHOOSE i \in 1..Len(s) : s[i] = x /\ \A j \in 1..(i - 1) : s[j] # x ELSE 0

\* Set iteration order: the values added, each at the place of its first add
insertionOrder(added) ==
    LET First(i) == \A j \in 1..(i - 1) : added[j] # added[i]
        kept == SelectSeq([i \in 1..Len(added) |-> i], First)
    IN [k \in 1..Len(kept) |-> added[kept[k]]]

Dedup(s) == insertionOrder(s)

RECURSIVE SumSeq(_)
SumSeq(s) == IF s = <<>> THEN 0 ELSE s[1] + SumSeq(Tail(s))

RECURSIVE Flatten(_)
Flatten(ss) == IF ss = <<>> THEN <<>> ELSE ss[1] \o Flatten(Tail(ss))

Min2(a, b) == IF a < b THEN a ELSE b

Max2(a, b) == IF a > b THEN a ELSE b

MapHas(m, k) == \E i \in 1..Len(m) : m[i].key = k

MapGet(m, k) == (CHOOSE e \in Range(m) : e.key = k).value

MapKeys(m) == [i \in 1..Len(m) |-> m[i].key]

MapSet(m, k, v) ==
    IF MapHas(m, k)
    THEN [i \in 1..Len(m) |-> IF m[i].key = k THEN [key |-> k, value |-> v] ELSE m[i]]
    ELSE Append(m, [key |-> k, value |-> v])

-----------------------------------------------------------------------------
(* Strings: characters, code-unit order, toUpperCase, includes *)

\* The characters that occur in ids and keywords, in increasing code-unit order
CharTable ==
    <<"0","1","2","3","4","5","6","7","8","9",
      "A","B","C","D","E","F","G","H","I","J","K","L","M",
      "N","O","P","Q","R","S","T","U","V","W","X","Y","Z",
      "_",
      "a","b","c","d","e","f","g","h","i","j","k","l","m",
      "n","o","p","q","r","s","t","u","v","w","x","y","z">>

CharCode(c) == CHOOSE i \in 1..Len(CharTable) : CharTable[i] = c

\* String.prototype.toUpperCase on one character: a..z (38..63) to A..Z (11..36)
UpperChar(c) == IF CharCode(c) >= 38 THEN CharTable[CharCode(c) - 27] ELSE c

\* The ids the input generator draws, each with its characters
Chars ==
    "B" :> <<"B">> @@
    "A" :> <<"A">> @@
    "D" :> <<"D">> @@
    "C" :> <<"C">> @@
    "F" :> <<"F">> @@
    "E" :> <<"E">> @@
    "G" :> <<"G">> @@
    "H" :> <<"H">> @@
    "Shop" :> <<"S","h","o","p">> @@
    "HUB" :> <<"H","U","B">> @@
    "ACME_CORP_PAYROLL" :> <<"A","C","M","E","_","C","O","R","P","_","P","A","Y","R","O","L","L">> @@
    "S1" :> <<"S","1">> @@
    "S2" :> <<"S","2">> @@
    "S3" :> <<"S","3">> @@
    "S4" :> <<"S","4">> @@
    "S5" :> <<"S","5">> @@
    "S6" :> <<"S","6">> @@
    "S7" :> <<"S","7">> @@
    "S8" :> <<"S","8">> @@
    "S9" :> <<"S","9">> @@
    "S10" :> <<"S","1","0">> @@
    "S11" :> <<"S","1","1">> @@
    "E1" :> <<"E","1">> @@
    "E2" :> <<"E","2">> @@
    "E3" :> <<"E","3">> @@
    "E4" :> <<"E","4">> @@
    "E5" :> <<"E","5">> @@
    "E6" :> <<"E","6">> @@
    "E7" :> <<"E","7">> @@
    "E8" :> <<"E","8">> @@
    "E9" :> <<"E","9">> @@
    "E10" :> <<"E","1","0">> @@
    "E11" :> <<"E","1","1">> @@
    "SRC" :> <<"S","R","C">> @@
    "M1" :> <<"M","1">> @@
    "M2" :> <<"M","2">> @@
    "M3" :> <<"M","3">> @@
    "DST" :> <<"D","S","T">>

AllIds == DOMAIN Chars

toUpperCase(id) == [i \in 1..Len(Chars[id]) |-> UpperChar(Chars[id][i])]

\* String.prototype.includes on character sequences
includes(s, kw) ==
    \E i \in 0..(Len(s) - Len(kw)) : \A j \in 1..Len(kw) : s[i + j] = kw[j]

\* The < of two strings: by code units, a proper prefix first
RECURSIVE SeqLess(_, _)
SeqLess(a, b) ==
    IF b = <<>> THEN FALSE
    ELSE IF a = <<>> THEN TRUE
    ELSE IF a[1] # b[1] THEN CharCode(a[1]) < CharCode(b[1])
    ELSE SeqLess(Tail(a), Tail(b))

\* a < b on two account ids
StrLess(a, b) == SeqLess(Chars[a], Chars[b])

\* Array.prototype.sort() with the default comparator, on a sequence of ids
RECURSIVE InsertSorted(_, _)
InsertSorted(s, x) ==
    IF s = <<>> THEN <<x>>
    ELSE IF StrLess(x, s[1]) THEN <<x>> \o s
    ELSE <<s[1]>> \o InsertSorted(Tail(s), x)

RECURSIVE SortIds(_)
SortIds(s) == IF s = <<>> THEN <<>> ELSE InsertSorted(SortIds(SubSeq(s, 1, Len(s) - 1)), s[Len(s)])

-----------------------------------------------------------------------------
(* Timestamps: new Date(text).getTime() *)

\* A timestamp text that Date cannot parse
BadTimestamp == -1

\* The value getTime() returns for an unparseable text
NaN == -1

HOUR_MS == 3600000

\* Variant of getTime that reads an unparseable text as the first instant
getTimeUnparseableAsZero(timestamp) == IF timestamp = BadTimestamp THEN 0 ELSE timestamp * HOUR_MS

getTime(timestamp) == IF timestamp = BadTimestamp THEN NaN ELSE timestamp * HOUR_MS

\* >= and <= of two numbers, false as soon as one is NaN
NumGeq(a, b) == a # NaN /\ b # NaN /\ a >= b

NumLeq(a, b) == a # NaN /\ b # NaN /\ a <= b

\* x + y, NaN if x is NaN
NumAdd(x, y) == IF x = NaN THEN NaN ELSE x + y

-----------------------------------------------------------------------------
(* Legitimate business account detection *)

businessKeywords == <<
    <<"C","O","M","P","A","N","Y">>, <<"C","O","R","P">>, <<"I","N","C">>, <<"L","L","C">>,
    <<"L","T","D">>, <<"E","N","T","E","R","P","R","I","S","E">>,
    <<"P","A","Y","R","O","L","L">>, <<"S","A","L","A","R","Y">>, <<"W","A","G","E">>,
    <<"H","R","_">>, <<"H","U","M","A","N","_","R","E","S","O","U","R","C","E">>,
    <<"R","E","N","T">>, <<"L","A","N","D","L","O","R","D">>,
    <<"P","R","O","P","E","R","T","Y">>, <<"R","E","A","L","T","Y">>,
    <<"H","O","U","S","I","N","G">>, <<"V","E","N","D","O","R">>,
    <<"S","U","P","P","L","I","E","R">>, <<"S","U","P","P","L","Y">>,
    <<"W","H","O","L","E","S","A","L","E">>, <<"G","R","O","C","E","R","Y">>,
    <<"S","T","O","R","E">>, <<"S","H","O","P">>, <<"M","A","R","K","E","T">>,
    <<"R","E","T","A","I","L">>, <<"U","T","I","L","I","T","Y">>,
    <<"E","L","E","C","T","R","I","C">>, <<"W","A","T","E","R">>, <<"G","A","S","_","C","O">>,
    <<"P","O","W","E","R">>, <<"I","N","S","U","R","A","N","C","E">>,
    <<"I","N","S","U","R","E">>, <<"B","A","N","K">>,
    <<"C","R","E","D","I","T","_","U","N","I","O","N">>, <<"M","O","R","T","G","A","G","E">>,
    <<"G","O","V","E","R","N","M","E","N","T">>, <<"G","O","V","_">>, <<"T","A","X","_">>,
    <<"I","R","S">>, <<"S","C","H","O","O","L">>, <<"U","N","I","V","E","R","S","I","T","Y">>,
    <<"C","O","L","L","E","G","E">>, <<"H","O","S","P","I","T","A","L">>,
    <<"C","L","I","N","I","C">>, <<"M","E","D","I","C","A","L">>, <<"H","E","A","L","T","H">>,
    <<"T","E","L","E","C","O","M">>, <<"P","H","O","N","E">>, <<"M","O","B","I","L","E">>,
    <<"I","N","T","E","R","N","E","T">>, <<"S","U","B","S","C","R","I","P","T","I","O","N">>,
    <<"N","E","T","F","L","I","X">>, <<"S","P","O","T","I","F","Y">> >>

hasBusinessName(accountId) ==
    \E k \in 1..Len(businessKeywords) : includes(toUpperCase(accountId), businessKeywords[k])

\* The ids with a business name (computed once; the test reads only the id)
BusinessNamed == {a \in AllIds : hasBusinessName(a)}

\* Variant of getAllAccounts that meets the receiver of a transaction before its sender
getAllAccountsReceiverFirst(txs) ==
    insertionOrder([i \in 1..(2 * Len(txs)) |-> IF i % 2 = 1 THEN txs[(i + 1) \div 2].receiver_id
                                                ELSE txs[i \div 2].sender_id])

\* Get all unique accounts: sender, then receiver, of each transaction in turn
getAllAccounts(txs) ==
    insertionOrder([i \in 1..(2 * Len(txs)) |-> IF i % 2 = 1 THEN txs[(i + 1) \div 2].sender_id
                                                ELSE txs[i \div 2].receiver_id])

SentBy(txs, id) == LET Test(t) == t.sender_id = id IN SelectSeq(txs, Test)

ReceivedBy(txs, id) == LET Test(t) == t.receiver_id = id IN SelectSeq(txs, Test)

AmountsOf(txs) == [i \in 1..Len(txs) |-> txs[i].amount]

\* The per-account record detectLegitimateAccounts gathers (its first loop)
accountTxs(txs, id) ==
    LET sent == SentBy(txs, id)
        received == ReceivedBy(txs, id)
    IN [sent |-> sent,
        received |-> received,
        uniqueSenders |-> Dedup([i \in 1..Len(received) |-> received[i].sender_id]),
        uniqueReceivers |-> Dedup([i \in 1..Len(sent) |-> sent[i].receiver_id]),
        totalSent |-> SumSeq(AmountsOf(sent)),
        totalReceived |-> SumSeq(AmountsOf(received))]

\* cv < 0.3 for a non-empty sequence of amounts, false when the mean is 0.
\* With n amounts of sum s, mean = s / n and variance = (n * sum of squares - s^2) / n^2,
\* so sqrt(variance) / mean < 0.3 is 100 * (n * sum of squares - s^2) < 9 * s^2.
consistentAmounts(amounts) ==
    LET n == Len(amounts)
        s == SumSeq(amounts)
        sq == SumSeq([i \in 1..n |-> amounts[i] * amounts[i]])
    IN IF s = 0 THEN FALSE ELSE 100 * (n * sq - s * s) < 9 * s * s

isPayrollLike(data) ==
    Len(data.uniqueReceivers) >= 5 /\ Len(data.sent) >= 5 /\ consistentAmounts(AmountsOf(data.sent))

isRentCollector(data) ==
    Len(data.uniqueSenders) >= 5 /\ Len(data.received) >= 5 /\ consistentAmounts(AmountsOf(data.received))

isMerchant(data) ==
    Len(data.uniqueSenders) >= 8 /\ Len(data.uniqueReceivers) <= 3 /\ data.totalReceived > data.totalSent * 5

isPurePayer(data) ==
    Len(data.uniqueReceivers) >= 5 /\ Len(data.uniqueSenders) <= 1 /\ data.totalSent > data.totalReceived * 5

\* flowRatio < 0.15, the ratio being min / max when both totals are positive and 0 otherwise
isOneDirectional(data) ==
    IF data.totalSent > 0 /\ data.totalReceived > 0
    THEN 100 * Min2(data.totalSent, data.totalReceived) < 15 * Max2(data.totalSent, data.totalReceived)
    ELSE TRUE

\* Variant of isLegitimate whose collector rule leaves out the flow test
isLegitimateCollectorAnyFlow(txs, accountId) ==
    LET data == accountTxs(txs, accountId)
    IN IF accountId \in BusinessNamed THEN TRUE
       ELSE IF isPayrollLike(data) /\ isOneDirectional(data) THEN TRUE
       ELSE IF isRentCollector(data) THEN TRUE
       ELSE IF isMerchant(data) THEN TRUE
       ELSE isPurePayer(data)

isLegitimate(txs, accountId) ==
    LET data == accountTxs(txs, accountId)
    IN IF accountId \in BusinessNamed THEN TRUE
       ELSE IF isPayrollLike(data) /\ isOneDirectional(data) THEN TRUE
       ELSE IF isRentCollector(data) /\ isOneDirectional(data) THEN TRUE
       ELSE IF isMerchant(data) THEN TRUE
       ELSE isPurePayer(data)

\* The set of legitimate accounts, in the iteration order of accountTxs
detectLegitimateAccounts(txs) ==
    LET Test(a) == isLegitimate(txs, a) IN SelectSeq(getAllAccounts(txs), Test)

\* Variant of removeLegitimateTransactions that removes nothing
keepAllTransactions(txs, legitimateAccounts) == txs

\* Variant of removeLegitimateTransactions that looks at the sender only
removeTransactionsOfLegitimateSenders(txs, legitimateAccounts) ==
    IF Len(legitimateAccounts) = 0 THEN txs
    ELSE LET Keep(tx) == ~Contains(legitimateAccounts, tx.sender_id)
         IN SelectSeq(txs, Keep)

removeLegitimateTransactions(txs, legitimateAccounts) ==
    IF Len(legitimateAccounts) = 0 THEN txs
    ELSE LET Keep(tx) == ~Contains(legitimateAccounts, tx.sender_id)
                         /\ ~Contains(legitimateAccounts, tx.receiver_id)
         IN SelectSeq(txs, Keep)

-----------------------------------------------------------------------------
(* Indexing and per-account statistics *)

\* Map sender -> Map receiver -> transactions, both levels in insertion order
buildAdjacencyList(txs) ==
    LET receiversOf(senderId) ==
            LET mine == SentBy(txs, senderId)
                to(receiverId) == LET Test(t) == t.receiver_id = receiverId IN SelectSeq(mine, Test)
                keys == Dedup([i \in 1..Len(mine) |-> mine[i].receiver_id])
            IN [k \in 1..Len(keys) |-> [key |-> keys[k], value |-> to(keys[k])]]
        senders == Dedup([i \in 1..Len(txs) |-> txs[i].sender_id])
    IN [k \in 1..Len(senders) |-> [key |-> senders[k], value |-> receiversOf(senders[k])]]

\* The keys of adj.get(id), empty when adj has no entry for id
Neighbors(adj, id) == IF MapHas(adj, id) THEN MapKeys(MapGet(adj, id)) ELSE <<>>

\* One entry of the statistics map of computeAccountStats
statsOf(txs, id) ==
    LET sent == SentBy(txs, id)
        received == ReceivedBy(txs, id)
        touching == LET Test(t) == t.sender_id = id \/ t.receiver_id = id IN SelectSeq(txs, Test)
    IN [totalSent |-> SumSeq(AmountsOf(sent)),
        totalReceived |-> SumSeq(AmountsOf(received)),
        sendCount |-> Len(sent),
        receiveCount |-> Len(received),
        senders |-> Dedup([i \in 1..Len(received) |-> received[i].sender_id]),
        receivers |-> Dedup([i \in 1..Len(sent) |-> sent[i].receiver_id]),
        transactionTimestamps |->
            Flatten([i \in 1..Len(touching) |->
                IF touching[i].sender_id = id /\ touching[i].receiver_id = id
                THEN <<getTime(touching[i].timestamp), getTime(touching[i].timestamp)>>
                ELSE <<getTime(touching[i].timestamp)>>]),
        totalTransactions |-> Len(sent) + Len(received)]

\* The statistics map: one entry per account of the batch
computeAccountStats(txs) == [id \in Range(getAllAccounts(txs)) |-> statsOf(txs, id)]

-----------------------------------------------------------------------------
(* Normalize a set of members + pattern into a dedup key *)

\* Array.prototype.join
RECURSIVE join(_, _)
join(ids, sep) ==
    IF ids = <<>> THEN ""
    ELSE IF Len(ids) = 1 THEN ids[1]
    ELSE ids[1] \o sep \o join(Tail(ids), sep)

\* Variant of makeRingDeduplicationKey that keeps the members in the order given
keyOfUnsortedMembers(members, patternType) ==
    patternType \o "::" \o join(members, ",")

makeRingDeduplicationKey(members, patternType) ==
    patternType \o "::" \o join(SortIds(members), ",")

-----------------------------------------------------------------------------
(* Pattern 1: circular fund routing, cycles of length 3 to 5 *)

\* Variant of MAX_DEPTH that stops the search one account earlier
MAX_DEPTH_OfFour == 5 - 1

MAX_DEPTH == 5

\* Variant of MIN_CYCLE that lets a path of two accounts close a cycle
MIN_CYCLE_OfTwo == 3 - 1

MIN_CYCLE == 3

\* dfs(current, depth) of detectCycles for one startNode: the paths it pushes onto
\* cycles, in order. path is the path before current is pushed; visited is always
\* the set of nodes on the path.
RECURSIVE cycleDfs(_, _, _, _, _), cycleNeighbors(_, _, _, _, _, _)
cycleDfs(adj, startNode, current, depth, path) ==
    IF depth > MAX_DEPTH THEN <<>>
    ELSE cycleNeighbors(adj, startNode, Neighbors(adj, current), 1, depth, Append(path, current))

cycleNeighbors(adj, startNode, neighbors, i, depth, path) ==
    IF i > Len(neighbors) THEN <<>>
    ELSE LET neighbor == neighbors[i]
             found == IF neighbor = startNode /\ depth >= MIN_CYCLE THEN <<path>>
                      ELSE IF ~Contains(path, neighbor) /\ depth < MAX_DEPTH
                           THEN cycleDfs(adj, startNode, neighbor, depth + 1, path)
                           ELSE <<>>
         IN found \o cycleNeighbors(adj, startNode, neighbors, i + 1, depth, path)

\* cycle.reduce((a, b) => (a < b ? a : b))
RECURSIVE minId(_)
minId(cycle) ==
    IF Len(cycle) = 1 THEN cycle[1]
    ELSE LET a == minId(SubSeq(cycle, 1, Len(cycle) - 1))
             b == cycle[Len(cycle)]
         IN IF StrLess(a, b) THEN a ELSE b

\* Rotate so that the smallest element is first
normalizeCycle(cycle) ==
    LET minIdx == IndexOf(cycle, minId(cycle))
    IN SubSeq(cycle, minIdx, Len(cycle)) \o SubSeq(cycle, 1, minIdx - 1)

\* Variant of uniqueCycles whose key is the sorted members: a direction is lost
RECURSIVE uniqueCyclesBySortedMembers(_)
uniqueCyclesBySortedMembers(cycles) ==
    IF cycles = <<>> THEN <<>>
    ELSE LET before == uniqueCyclesBySortedMembers(SubSeq(cycles, 1, Len(cycles) - 1))
             normalized == normalizeCycle(cycles[Len(cycles)])
             key == join(SortIds(normalized), "|")
         IN IF \E k \in 1..Len(before) : join(SortIds(before[k]), "|") = key
            THEN before
            ELSE Append(before, normalized)

\* Deduplicate on the key normalized.join("|"), keeping first discoveries
RECURSIVE uniqueCycles(_)
uniqueCycles(cycles) ==
    IF cycles = <<>> THEN <<>>
    ELSE LET before == uniqueCycles(SubSeq(cycles, 1, Len(cycles) - 1))
             normalized == normalizeCycle(cycles[Len(cycles)])
             key == join(normalized, "|")
         IN IF \E k \in 1..Len(before) : join(before[k], "|") = key
            THEN before
            ELSE Append(before, normalized)

detectCycles(adj, allAccounts) ==
    uniqueCycles(Flatten([s \in 1..Len(allAccounts) |->
        cycleDfs(adj, allAccounts[s], allAccounts[s], 1, <<>>)]))

-----------------------------------------------------------------------------
(* Pattern 2: smurfing, fan-in and fan-out *)

WINDOW_MS == 72 * 60 * 60 * 1000

\* Variant of MIN_CONNECTIONS that asks for one counterparty more
MIN_CONNECTIONS_Eleven == 10 + 1

MIN_CONNECTIONS == 10

\* Keys of byReceiver / bySender, in insertion order
receiverKeys(txs) == Dedup([i \in 1..Len(txs) |-> txs[i].receiver_id])

senderKeys(txs) == Dedup([i \in 1..Len(txs) |-> txs[i].sender_id])

\* Variant of temporalCluster whose window leaves out its last instant
temporalClusterOpenWindow(txs, party) ==
    \E i \in 1..Len(txs) :
        LET start == getTime(txs[i].timestamp)
            windowEnd == NumAdd(start, WINDOW_MS)
            InWindow(t) == /\ NumGeq(getTime(t.timestamp), start)
                           /\ NumLeq(getTime(t.timestamp), windowEnd)
                           /\ getTime(t.timestamp) # windowEnd
            inWindow == SelectSeq(txs, InWindow)
        IN Cardinality({inWindow[k][party] : k \in 1..Len(inWindow)}) >= MIN_CONNECTIONS

\* The temporal-cluster loop. txs are the hub's transactions and party the field
\* that holds the counterparty. The loop walks the sorted timestamps and stops at the first
\* window with MIN_CONNECTIONS distinct counterparties; every timestamp of txs is
\* visited unless it stops, so the flag is true iff some timestamp opens such a window.
temporalCluster(txs, party) ==
    \E i \in 1..Len(txs) :
        LET start == getTime(txs[i].timestamp)
            windowEnd == NumAdd(start, WINDOW_MS)
            InWindow(t) == NumGeq(getTime(t.timestamp), start) /\ NumLeq(getTime(t.timestamp), windowEnd)
            inWindow == SelectSeq(txs, InWindow)
        IN Cardinality({inWindow[k][party] : k \in 1..Len(inWindow)}) >= MIN_CONNECTIONS

\* fanInAccounts: Map receiver -> {senders, temporal}, in byReceiver order
fanInAccounts(txs) ==
    LET entry(receiverId) ==
            LET mine == ReceivedBy(txs, receiverId)
            IN [key |-> receiverId,
                value |-> [senders |-> Dedup([i \in 1..Len(mine) |-> mine[i].sender_id]),
                           temporal |-> temporalCluster(mine, "sender_id")]]
        IsHub(receiverId) ==
            Cardinality({t.sender_id : t \in Range(ReceivedBy(txs, receiverId))}) >= MIN_CONNECTIONS
        hubs == SelectSeq(receiverKeys(txs), IsHub)
    IN [i \in 1..Len(hubs) |-> entry(hubs[i])]

\* fanOutAccounts: Map sender -> {receivers, temporal}, in bySender order
fanOutAccounts(txs) ==
    LET entry(senderId) ==
            LET mine == SentBy(txs, senderId)
            IN [key |-> senderId,
                value |-> [receivers |-> Dedup([i \in 1..Len(mine) |-> mine[i].receiver_id]),
                           temporal |-> temporalCluster(mine, "receiver_id")]]
        IsHub(senderId) ==
            Cardinality({t.receiver_id : t \in Range(SentBy(txs, senderId))}) >= MIN_CONNECTIONS
        hubs == SelectSeq(senderKeys(txs), IsHub)
    IN [i \in 1..Len(hubs) |-> entry(hubs[i])]

\* detectSmurfing is given the batch it is called with and returns both maps
detectSmurfing(txs) ==
    [fanInAccounts |-> fanInAccounts(txs), fanOutAccounts |-> fanOutAccounts(txs)]

-----------------------------------------------------------------------------
(* Pattern 3: layered shell networks *)

SHELL_MIN_TX == 2

SHELL_MAX_TX == 3

totalTx(accountStats, id) ==
    IF id \in DOMAIN accountStats THEN accountStats[id].totalTransactions ELSE 0

\* Variant of isShellDegree without the upper bound
isShellDegreeFromTwo(n) == n >= SHELL_MIN_TX

isShellDegree(n) == n >= SHELL_MIN_TX /\ n <= SHELL_MAX_TX

\* The chains [...path, nn] pushed for the final destinations nn of the node just
\* appended to path (the inner loop over nextNeighbors)
shellDestinations(adj, accountStats, cycleNodes, path) ==
    LET nextNeighbors == Neighbors(adj, path[Len(path)])
        IsDest(nn) == /\ ~Contains(path, nn)
                      /\ ~Contains(cycleNodes, nn)
                      /\ ~isShellDegree(totalTx(accountStats, nn))
                      /\ Len(path) >= 2
        dests == SelectSeq(nextNeighbors, IsDest)
    IN [k \in 1..Len(dests) |-> Append(path, dests[k])]

\* dfs(current) of detectShellNetworks: the chains it pushes, in order. path ends
\* with current; visited is always the set of nodes on the path.
RECURSIVE shellDfs(_, _, _, _), shellNeighbors(_, _, _, _, _, _)
shellDfs(adj, accountStats, cycleNodes, path) ==
    shellNeighbors(adj, accountStats, cycleNodes, Neighbors(adj, path[Len(path)]), 1, path)

shellNeighbors(adj, accountStats, cycleNodes, neighbors, i, path) ==
    IF i > Len(neighbors) THEN <<>>
    ELSE LET neighbor == neighbors[i]
             extended == Append(path, neighbor)
             found ==
                IF Contains(path, neighbor) THEN <<>>
                ELSE IF Contains(cycleNodes, neighbor) THEN <<>>
                ELSE IF isShellDegree(totalTx(accountStats, neighbor))
                     THEN shellDestinations(adj, accountStats, cycleNodes, extended)
                          \o (IF Len(extended) >= 3 THEN <<extended>> ELSE <<>>)
                          \o shellDfs(adj, accountStats, cycleNodes, extended)
                     ELSE <<>>
         IN found \o shellNeighbors(adj, accountStats, cycleNodes, neighbors, i + 1, path)

\* chains.sort((a, b) => b.length - a.length): stable, longest first
RECURSIVE insertByLength(_, _)
insertByLength(sorted, chain) ==
    IF sorted = <<>> THEN <<chain>>
    ELSE IF Len(chain) > Len(sorted[1]) THEN <<chain>> \o sorted
    ELSE <<sorted[1]>> \o insertByLength(Tail(sorted), chain)

RECURSIVE sortChains(_)
sortChains(chains) ==
    IF chains = <<>> THEN <<>>
    ELSE insertByLength(sortChains(SubSeq(chains, 1, Len(chains) - 1)), chains[Len(chains)])

\* Variant of uniqueChains that discards nothing
uniqueChainsKeepingSubsets(sortedChains) == sortedChains

\* Keep a chain unless all its nodes are in a chain kept before it
RECURSIVE uniqueChains(_)
uniqueChains(sortedChains) ==
    IF sortedChains = <<>> THEN <<>>
    ELSE LET kept == uniqueChains(SubSeq(sortedChains, 1, Len(sortedChains) - 1))
             chain == sortedChains[Len(sortedChains)]
             isSubset == \E k \in 1..Len(kept) : Range(chain) \subseteq Range(kept[k])
         IN IF isSubset THEN kept ELSE Append(kept, chain)

\* Variant of detectShellNetworks that does not set the cycle accounts aside
detectShellNetworksThroughCycles(adj, accountStats, cycleNodes) ==
    LET allNodes == MapKeys(adj)
    IN uniqueChains(sortChains(Flatten([s \in 1..Len(allNodes) |->
                                           shellDfs(adj, accountStats, <<>>, <<allNodes[s]>>)])))

detectShellNetworks(adj, accountStats, cycleNodes) ==
    LET allNodes == MapKeys(adj)
        fromStart(startNode) ==
            IF Contains(cycleNodes, startNode) THEN <<>>
            ELSE shellDfs(adj, accountStats, cycleNodes, <<startNode>>)
    IN uniqueChains(sortChains(Flatten([s \in 1..Len(allNodes) |-> fromStart(allNodes[s])])))

-----------------------------------------------------------------------------
(* Suspicion score, in tenths of a point *)

cyclePattern(n) == "cycle_length_" \o ToString(n)

\* p.startsWith("cycle_length_"), for the labels the engine builds
isCyclePattern(p) == \E n \in 0..(2 * MAX_DEPTH) : p = cyclePattern(n)

\* Variant of isPassThrough whose upper bound is not strict
isPassThroughUpToOne(stats) ==
    LET totalFlow == stats.totalSent + stats.totalReceived
        maxFlow == Max2(stats.totalSent, stats.totalReceived)
        minFlow == Min2(stats.totalSent, stats.totalReceived)
    IN totalFlow > 0 /\ maxFlow > 0 /\ 10 * minFlow > 7 * maxFlow /\ minFlow <= maxFlow

\* 0.7 < min / max < 1.0 for the two totals of one account
isPassThrough(stats) ==
    LET totalFlow == stats.totalSent + stats.totalReceived
        maxFlow == Max2(stats.totalSent, stats.totalReceived)
        minFlow == Min2(stats.totalSent, stats.totalReceived)
    IN totalFlow > 0 /\ maxFlow > 0 /\ 10 * minFlow > 7 * maxFlow /\ minFlow < maxFlow

\* Variant of calculateSuspicionScore that returns the sum of the parts as it is
calculateSuspicionScoreUncapped(accountId, patterns, accountStats, cycleCount, isSmurfHub, isShellNode, temporalFlag) ==
    LET cyclePart == IF \E i \in 1..Len(patterns) : isCyclePattern(patterns[i])
                     THEN 350 + Min2(cycleCount - 1, 3) * 100 ELSE 0
        fanInPart == IF Contains(patterns, "fan_in") THEN 250 ELSE 0
        fanOutPart == IF Contains(patterns, "fan_out") THEN 250 ELSE 0
        shellPart == IF Contains(patterns, "shell_network") THEN 200 ELSE 0
        temporalPart == IF temporalFlag THEN 150 ELSE 0
        flowPart == IF accountId \in DOMAIN accountStats /\ isPassThrough(accountStats[accountId])
                    THEN 100 ELSE 0
    IN cyclePart + fanInPart + fanOutPart + shellPart + temporalPart + flowPart

calculateSuspicionScore(accountId, patterns, accountStats, cycleCount, isSmurfHub, isShellNode, temporalFlag) ==
    LET cyclePart == IF \E i \in 1..Len(patterns) : isCyclePattern(patterns[i])
                     THEN 350 + Min2(cycleCount - 1, 3) * 100 ELSE 0
        fanInPart == IF Contains(patterns, "fan_in") THEN 250 ELSE 0
        fanOutPart == IF Contains(patterns, "fan_out") THEN 250 ELSE 0
        shellPart == IF Contains(patterns, "shell_network") THEN 200 ELSE 0
        temporalPart == IF temporalFlag THEN 150 ELSE 0
        flowPart == IF accountId \in DOMAIN accountStats /\ isPassThrough(accountStats[accountId])
                    THEN 100 ELSE 0
    IN Min2(cyclePart + fanInPart + fanOutPart + shellPart + temporalPart + flowPart, 1000)

-----------------------------------------------------------------------------
(* Ring assembly: the mutable state of analyzeTransactions and its helpers *)

\* String.prototype.padStart(width, "0")
RECURSIVE padStart(_, _)
padStart(s, width) == IF Len(s) >= width THEN s ELSE padStart("0" \o s, width)

nextRingId(ringCounter) == "RING_" \o padStart(ToString(ringCounter), 3)

emptyAssembly ==
    [fraudRings |-> <<>>,
     ringCounter |-> 1,
     ringDeduplicationSet |-> <<>>,
     accountPatterns |-> <<>>,
     accountRings |-> <<>>,
     accountCycleCounts |-> <<>>,
     cycleNodes |-> <<>>,
     skipped |-> 0]

addPattern(st, accountId, pattern) ==
    LET have == IF MapHas(st.accountPatterns, accountId) THEN MapGet(st.accountPatterns, accountId) ELSE <<>>
    IN [st EXCEPT !.accountPatterns = MapSet(@, accountId, SetAdd(have, pattern))]

\* Variant of addRing that puts the newest ring ahead of the earlier ones
addRingNewestFirst(st, accountId, ringId) ==
    LET have == IF MapHas(st.accountRings, accountId) THEN MapGet(st.accountRings, accountId) ELSE <<>>
    IN [st EXCEPT !.accountRings = MapSet(@, accountId,
                                          IF Contains(have, ringId) THEN have ELSE <<ringId>> \o have)]

addRing(st, accountId, ringId) ==
    LET have == IF MapHas(st.accountRings, accountId) THEN MapGet(st.accountRings, accountId) ELSE <<>>
    IN [st EXCEPT !.accountRings = MapSet(@, accountId, SetAdd(have, ringId))]

\* Variant of tagAccounts that labels the first account of the list only
tagFirstAccount(st, accounts, pattern, ringId) ==
    IF accounts = <<>> THEN st
    ELSE addRing(addPattern(st, accounts[1], pattern), accounts[1], ringId)

\* addPattern and addRing for each account of a list, in order
RECURSIVE tagAccounts(_, _, _, _)
tagAccounts(st, accounts, pattern, ringId) ==
    IF accounts = <<>> THEN st
    ELSE tagAccounts(addRing(addPattern(st, accounts[1], pattern), accounts[1], ringId),
                     Tail(accounts), pattern, ringId)

\* Variant of countCycle that records a first cycle and counts no further one
RECURSIVE countCycleOnce(_, _)
countCycleOnce(st, accounts) ==
    IF accounts = <<>> THEN st
    ELSE countCycleOnce([st EXCEPT !.accountCycleCounts = MapSet(@, accounts[1], 1),
                                   !.cycleNodes = SetAdd(@, accounts[1])],
                        Tail(accounts))

\* accountCycleCounts and cycleNodes for each account of an accepted cycle
RECURSIVE countCycle(_, _)
countCycle(st, accounts) ==
    IF accounts = <<>> THEN st
    ELSE LET account == accounts[1]
             n == IF MapHas(st.accountCycleCounts, account) THEN MapGet(st.accountCycleCounts, account) ELSE 0
         IN countCycle([st EXCEPT !.accountCycleCounts = MapSet(@, account, n + 1),
                                  !.cycleNodes = SetAdd(@, account)],
                       Tail(accounts))

cycleRisk(cycle) == Min2(700 + Len(cycle) * 50, 1000)

\* Variant of fanRisk that counts the hub among the counterparties
fanRiskCountingHub(data, parties) ==
    Min2(600 + (IF data.temporal THEN 250 ELSE 100) + (Len(parties) + 1) * 5, 1000)

fanRisk(data, parties) == Min2(600 + (IF data.temporal THEN 250 ELSE 100) + Len(parties) * 5, 1000)

shellRisk(chain) == Min2(500 + Len(chain) * 80, 1000)

\* Variant of acceptRing that takes the ring number before the duplicate test
acceptRingNumberedFirst(st, members, patternType, label, riskScore) ==
    LET dedupKey == makeRingDeduplicationKey(members, patternType)
        ringId == nextRingId(st.ringCounter)
        numbered == [st EXCEPT !.ringCounter = @ + 1]
    IN IF Contains(st.ringDeduplicationSet, dedupKey)
       THEN [numbered EXCEPT !.skipped = @ + 1]
       ELSE LET tagged == tagAccounts(numbered, members, label, ringId)
                counted == IF patternType = "cycle" THEN countCycle(tagged, members) ELSE tagged
            IN [counted EXCEPT
                   !.ringDeduplicationSet = Append(@, dedupKey),
                   !.fraudRings = Append(@, [ring_id |-> ringId,
                                             member_accounts |-> members,
                                             pattern_type |-> patternType,
                                             risk_score |-> riskScore])]

\* One pass of a ring loop: skip a candidate whose key was seen, else take the next
\* ring id, tag the members and push the ring
acceptRing(st, members, patternType, label, riskScore) ==
    LET dedupKey == makeRingDeduplicationKey(members, patternType)
    IN IF Contains(st.ringDeduplicationSet, dedupKey)
       THEN [st EXCEPT !.skipped = @ + 1]
       ELSE LET ringId == nextRingId(st.ringCounter)
                tagged == tagAccounts(st, members, label, ringId)
                counted == IF patternType = "cycle" THEN countCycle(tagged, members) ELSE tagged
            IN [counted EXCEPT
                   !.ringDeduplicationSet = Append(@, dedupKey),
                   !.ringCounter = @ + 1,
                   !.fraudRings = Append(@, [ring_id |-> ringId,
                                             member_accounts |-> members,
                                             pattern_type |-> patternType,
                                             risk_score |-> riskScore])]

RECURSIVE assembleCycles(_, _)
assembleCycles(st, cycles) ==
    IF cycles = <<>> THEN st
    ELSE assembleCycles(acceptRing(st, cycles[1], "cycle", cyclePattern(Len(cycles[1])), cycleRisk(cycles[1])),
                        Tail(cycles))

RECURSIVE assembleFanIn(_, _)
assembleFanIn(st, fanIn) ==
    IF fanIn = <<>> THEN st
    ELSE LET accountId == fanIn[1].key
             data == fanIn[1].value
         IN assembleFanIn(acceptRing(st, <<accountId>> \o data.senders, "fan_in", "fan_in",
                                     fanRisk(data, data.senders)),
                          Tail(fanIn))

RECURSIVE assembleFanOut(_, _)
assembleFanOut(st, fanOut) ==
    IF fanOut = <<>> THEN st
    ELSE LET accountId == fanOut[1].key
             data == fanOut[1].value
         IN assembleFanOut(acceptRing(st, <<accountId>> \o data.receivers, "fan_out", "fan_out",
                                      fanRisk(data, data.receivers)),
                           Tail(fanOut))

RECURSIVE assembleShells(_, _)
assembleShells(st, chains) ==
    IF chains = <<>> THEN st
    ELSE assembleShells(acceptRing(st, chains[1], "shell_network", "shell_network", shellRisk(chains[1])),
                        Tail(chains))

-----------------------------------------------------------------------------
(* Projection: suspicious accounts, nodes, edges *)

\* Variant of buildSuspicious in which every account inherits the temporal flag
\* of any hub
buildSuspiciousInheritingFlag(st, accountStats, fanIn, fanOut) ==
    LET HasRings(e) == MapHas(st.accountRings, e.key) /\ Len(MapGet(st.accountRings, e.key)) > 0
        entries == SelectSeq(st.accountPatterns, HasRings)
        one(e) ==
            LET accountId == e.key
                isFanIn == MapHas(fanIn, accountId)
                isFanOut == MapHas(fanOut, accountId)
                temporalFlag == \/ \E k \in 1..Len(fanIn) : fanIn[k].value.temporal
                                \/ \E k \in 1..Len(fanOut) : fanOut[k].value.temporal
                cycleCount == IF MapHas(st.accountCycleCounts, accountId)
                              THEN MapGet(st.accountCycleCounts, accountId) ELSE 0
            IN [account_id |-> accountId,
                suspicion_score |-> calculateSuspicionScore(accountId, e.value, accountStats,
                                                            cycleCount, isFanIn \/ isFanOut,
                                                            Contains(e.value, "shell_network"),
                                                            temporalFlag),
                detected_patterns |-> e.value,
                ring_id |-> MapGet(st.accountRings, accountId)[1]]
    IN [i \in 1..Len(entries) |-> one(entries[i])]

\* The loop over accountPatterns that builds suspiciousAccounts (before the sort)
buildSuspicious(st, accountStats, fanIn, fanOut) ==
    LET HasRings(e) == MapHas(st.accountRings, e.key) /\ Len(MapGet(st.accountRings, e.key)) > 0
        entries == SelectSeq(st.accountPatterns, HasRings)
        one(e) ==
            LET accountId == e.key
                isFanIn == MapHas(fanIn, accountId)
                isFanOut == MapHas(fanOut, accountId)
                temporalFlag == (isFanIn /\ MapGet(fanIn, accountId).temporal)
                                \/ (isFanOut /\ MapGet(fanOut, accountId).temporal)
                cycleCount == IF MapHas(st.accountCycleCounts, accountId)
                              THEN MapGet(st.accountCycleCounts, accountId) ELSE 0
            IN [account_id |-> accountId,
                suspicion_score |-> calculateSuspicionScore(accountId, e.value, accountStats,
                                                            cycleCount, isFanIn \/ isFanOut,
                                                            Contains(e.value, "shell_network"),
                                                            temporalFlag),
                detected_patterns |-> e.value,
                ring_id |-> MapGet(st.accountRings, accountId)[1]]
    IN [i \in 1..Len(entries) |-> one(entries[i])]

\* Variant of insertByScore that puts an account ahead of those with the same score
RECURSIVE insertAheadOfTies(_, _)
insertAheadOfTies(sorted, a) ==
    IF sorted = <<>> THEN <<a>>
    ELSE IF a.suspicion_score >= sorted[1].suspicion_score THEN <<a>> \o sorted
    ELSE <<sorted[1]>> \o insertAheadOfTies(Tail(sorted), a)

\* suspiciousAccounts.sort((a, b) => b.suspicion_score - a.suspicion_score): stable
RECURSIVE insertByScore(_, _)
insertByScore(sorted, a) ==
    IF sorted = <<>> THEN <<a>>
    ELSE IF a.suspicion_score > sorted[1].suspicion_score THEN <<a>> \o sorted
    ELSE <<sorted[1]>> \o insertByScore(Tail(sorted), a)

RECURSIVE sortByScore(_)
sortByScore(accounts) ==
    IF accounts = <<>> THEN <<>>
    ELSE insertByScore(sortByScore(SubSeq(accounts, 1, Len(accounts) - 1)), accounts[Len(accounts)])

buildNodes(universe, txs, st, suspiciousAccounts, legitimateAccounts) ==
    LET allOriginalStats == computeAccountStats(txs)
        node(accountId) ==
            LET found == {i \in 1..Len(suspiciousAccounts) : suspiciousAccounts[i].account_id = accountId}
                has == accountId \in DOMAIN allOriginalStats
            IN [id |-> accountId,
                suspicious |-> found # {},
                ring_ids |-> IF MapHas(st.accountRings, accountId) THEN MapGet(st.accountRings, accountId) ELSE <<>>,
                patterns |-> IF Contains(legitimateAccounts, accountId) THEN <<"legitimate_business">>
                             ELSE IF MapHas(st.accountPatterns, accountId)
                                  THEN MapGet(st.accountPatterns, accountId) ELSE <<>>,
                total_sent |-> IF has THEN allOriginalStats[accountId].totalSent ELSE 0,
                total_received |-> IF has THEN allOriginalStats[accountId].totalReceived ELSE 0,
                transaction_count |-> IF has THEN allOriginalStats[accountId].totalTransactions ELSE 0,
                suspicion_score |-> IF found # {}
                                    THEN suspiciousAccounts[CHOOSE i \in found : \A j \in found : i <= j].suspicion_score
                                    ELSE 0]
    IN [i \in 1..Len(universe) |-> node(universe[i])]

\* The nodes of the early return: no statistics, no patterns but the legitimate tag
emptyNodes(universe, legitimateAccounts) ==
    [i \in 1..Len(universe) |->
        [id |-> universe[i],
         suspicious |-> FALSE,
         ring_ids |-> <<>>,
         patterns |-> IF Contains(legitimateAccounts, universe[i]) THEN <<"legitimate_business">> ELSE <<>>,
         total_sent |-> 0,
         total_received |-> 0,
         transaction_count |-> 0,
         suspicion_score |-> 0]]

buildEdges(txs) ==
    [i \in 1..Len(txs) |->
        [source |-> txs[i].sender_id,
         target |-> txs[i].receiver_id,
         amount |-> txs[i].amount,
         timestamp |-> txs[i].timestamp,
         transaction_id |-> txs[i].transaction_id]]

-----------------------------------------------------------------------------
(* Main analysis function *)

\* The detection path of analyzeTransactions, section by section. Each section is
\* an operator that receives what the sections before it computed; the result is
\* the locals that matter (locals) and the returned object. The elapsed wall-clock
\* time (summary.processing_time_seconds) is not a function of the batch and is
\* left out of the returned object.

\* "Build Suspicious Accounts" is done; build nodes, edges and the summary
project(txs, universe, legitimateAccounts, filteredTransactions, cycles, smurfing, st, suspiciousAccounts) ==
    [locals |->
        [legitimateAccounts |-> legitimateAccounts,
         filteredTransactions |-> filteredTransactions,
         cycles |-> cycles,
         fanInAccounts |-> smurfing.fanInAccounts,
         fanOutAccounts |-> smurfing.fanOutAccounts,
         cycleNodes |-> st.cycleNodes,
         accountPatterns |-> st.accountPatterns,
         accountRings |-> st.accountRings,
         ringCounter |-> st.ringCounter,
         skipped |-> st.skipped],
     returned |->
        [suspicious_accounts |-> suspiciousAccounts,
         fraud_rings |-> st.fraudRings,
         summary |-> [total_accounts_analyzed |-> Len(universe),
                      suspicious_accounts_flagged |-> Len(suspiciousAccounts),
                      fraud_rings_detected |-> Len(st.fraudRings),
                      legitimate_accounts_filtered |-> Len(legitimateAccounts)],
         nodes |-> buildNodes(universe, txs, st, suspiciousAccounts, legitimateAccounts),
         edges |-> buildEdges(txs)]]

\* The ring loops are done (st); build and sort the suspicious accounts
scoreAccounts(txs, universe, legitimateAccounts, filteredTransactions, accountStats, cycles, smurfing, st) ==
    project(txs, universe, legitimateAccounts, filteredTransactions, cycles, smurfing, st,
            sortByScore(buildSuspicious(st, accountStats, smurfing.fanInAccounts, smurfing.fanOutAccounts)))

\* The shell loop, on the chains found with the cycle accounts of st set aside
assembleShellRings(adj, accountStats, st) ==
    assembleShells(st, detectShellNetworks(adj, accountStats, st.cycleNodes))

\* Variant of assembleRings that runs the two smurfing loops ahead of the cycle loop
assembleRingsSmurfingFirst(txs, universe, legitimateAccounts, filteredTransactions, adj, accountStats, cycles, smurfing) ==
    scoreAccounts(txs, universe, legitimateAccounts, filteredTransactions, accountStats, cycles, smurfing,
        assembleShellRings(adj, accountStats,
            assembleCycles(assembleFanOut(assembleFanIn(emptyAssembly, smurfing.fanInAccounts),
                                          smurfing.fanOutAccounts),
                           cycles)))

\* The cycle loop, the two smurfing loops and the shell loop, in that order
assembleRings(txs, universe, legitimateAccounts, filteredTransactions, adj, accountStats, cycles, smurfing) ==
    scoreAccounts(txs, universe, legitimateAccounts, filteredTransactions, accountStats, cycles, smurfing,
        assembleShellRings(adj, accountStats,
            assembleFanOut(assembleFanIn(assembleCycles(emptyAssembly, cycles),
                                         smurfing.fanInAccounts),
                           smurfing.fanOutAccounts)))

\* Cycles are searched in the filtered graph; detectSmurfing is given the batch
\* as it came in
runDetectors(txs, universe, legitimateAccounts, filteredTransactions, allAccounts, adj, accountStats) ==
    assembleRings(txs, universe, legitimateAccounts, filteredTransactions, adj, accountStats,
                  detectCycles(adj, allAccounts), detectSmurfing(txs))

\* Variant of detect that builds the account list, the adjacency index and the
\* statistics from the batch as it came in
detectOnWholeBatch(txs, universe, legitimateAccounts, filteredTransactions) ==
    runDetectors(txs, universe, legitimateAccounts, filteredTransactions,
                 getAllAccounts(txs),
                 buildAdjacencyList(txs),
                 computeAccountStats(txs))

detect(txs, universe, legitimateAccounts, filteredTransactions) ==
    runDetectors(txs, universe, legitimateAccounts, filteredTransactions,
                 getAllAccounts(filteredTransactions),
                 buildAdjacencyList(filteredTransactions),
                 computeAccountStats(filteredTransactions))

\* The early return taken when the filter leaves no transaction
emptyReturn(txs, universe, legitimateAccounts) ==
    [locals |->
        [legitimateAccounts |-> legitimateAccounts,
         filteredTransactions |-> <<>>,
         cycles |-> <<>>,
         fanInAccounts |-> <<>>,
         fanOutAccounts |-> <<>>,
         cycleNodes |-> <<>>,
         accountPatterns |-> <<>>,
         accountRings |-> <<>>,
         ringCounter |-> 1,
         skipped |-> 0],
     returned |->
        [suspicious_accounts |-> <<>>,
         fraud_rings |-> <<>>,
         summary |-> [total_accounts_analyzed |-> Len(universe),
                      suspicious_accounts_flagged |-> 0,
                      fraud_rings_detected |-> 0,
                      legitimate_accounts_filtered |-> Len(legitimateAccounts)],
         nodes |-> emptyNodes(universe, legitimateAccounts),
         edges |-> buildEdges(txs)]]

\* Variant of analyzeTransactions that goes on to detection with an empty filtered batch
analyzeTransactionsAlwaysDetect(txs) ==
    detect(txs, getAllAccounts(txs), detectLegitimateAccounts(txs),
           removeLegitimateTransactions(txs, detectLegitimateAccounts(txs)))

analyzeTransactions(txs) ==
    LET allAccountsBeforeFilter == getAllAccounts(txs)
        legitimateAccounts == detectLegitimateAccounts(txs)
        filteredTransactions == removeLegitimateTransactions(txs, legitimateAccounts)
    IN IF Len(filteredTransactions) = 0
       THEN emptyReturn(txs, allAccountsBeforeFilter, legitimateAccounts)
       ELSE detect(txs, allAccountsBeforeFilter, legitimateAccounts, filteredTransactions)

-----------------------------------------------------------------------------
(* The batches analysed *)

\* Weighted size of the largest batch: a transfer weighs 1, two more when its sender
\* is not the receiver of the transfer before it, two more when its amount is not
\* the first of Amounts; a hub block weighs 4
MaxCost == 6

\* Orders in which a batch brings in new accounts
NameOrders ==
    << <<"B", "A", "D", "C", "F", "E", "G", "H">>,
       <<"A", "Shop", "C", "B", "D", "E", "F", "G">> >>

CoreIds == UNION {Range(NameOrders[k]) : k \in 1..Len(NameOrders)}

\* Amounts are in units of 10 dollars
Amounts == <<10, 8>>

\* Hubs that are not accounts of the transfers
FanHubs == {"HUB", "ACME_CORP_PAYROLL"}

\* Hub blocks: n counterparties, one transfer each, gap hours apart, the first at
\* as many hours as the batch has transfers before the block; amounts all
\* equal, or every second one tripled (spread); bad is the position of a transfer
\* with an unparseable timestamp, 0 for none
FanProfiles ==
    { [n |-> 10, gap |-> 1, amount |-> 5, spread |-> FALSE, bad |-> 0],
      [n |-> 10, gap |-> 8, amount |-> 5, spread |-> TRUE, bad |-> 0],
      [n |-> 10, gap |-> 9, amount |-> 5, spread |-> FALSE, bad |-> 0],
      [n |-> 9, gap |-> 1, amount |-> 5, spread |-> FALSE, bad |-> 0],
      [n |-> 10, gap |-> 1, amount |-> 200, spread |-> FALSE, bad |-> 3],
      [n |-> 11, gap |-> 1, amount |-> 200, spread |-> FALSE, bad |-> 0],
      [n |-> 10, gap |-> 1, amount |-> 200, spread |-> FALSE, bad |-> 0],
      [n |-> 10, gap |-> 1, amount |-> 5, spread |-> FALSE, bad |-> 3],
      [n |-> 10, gap |-> 1, amount |-> 0, spread |-> FALSE, bad |-> 0] }

\* The accounts of a batch, each once, in the order they first occur
endsOf(txs) ==
    [i \in 1..(2 * Len(txs)) |-> IF i % 2 = 1 THEN txs[(i + 1) \div 2].sender_id
                                 ELSE txs[i \div 2].receiver_id]

Universe(txs) == insertionOrder(endsOf(txs))

coreUsed(txs) == LET Core(a) == a \in CoreIds IN SelectSeq(Universe(txs), Core)

\* The order the batch follows, once its first account is known
nameOrder(txs) == NameOrders[CHOOSE k \in 1..Len(NameOrders) : NameOrders[k][1] = coreUsed(txs)[1]]

\* The accounts a new transfer may bring in: the next unused one of the order
nextNew(used) ==
    IF used = <<>> THEN {NameOrders[k][1] : k \in 1..Len(NameOrders)}
    ELSE LET order == NameOrders[CHOOSE k \in 1..Len(NameOrders) : NameOrders[k][1] = used[1]]
         IN IF Len(used) < Len(order) THEN {order[Len(used) + 1]} ELSE {}

\* Receiver of the last transfer between two accounts of the orders, "" if none
lastReceiver(txs) ==
    LET core == {i \in 1..Len(txs) : txs[i].sender_id \in CoreIds /\ txs[i].receiver_id \in CoreIds}
    IN IF core = {} THEN "" ELSE txs[CHOOSE i \in core : \A j \in core : j <= i].receiver_id

newTransaction(txs, s, r, amt, ts) ==
    [transaction_id |-> "T" \o ToString(Len(txs) + 1),
     sender_id |-> s,
     receiver_id |-> r,
     amount |-> amt,
     timestamp |-> ts]

Spoke(direction, i) == (IF direction = "in" THEN "S" ELSE "E") \o ToString(i)

RECURSIVE fanBlock(_, _, _, _, _)
fanBlock(txs, direction, hub, p, i) ==
    IF i > p.n THEN txs
    ELSE LET amt == IF p.spread /\ i % 2 = 0 THEN 3 * p.amount ELSE p.amount
             base == Len(txs) - (i - 1)
             ts == IF i = p.bad THEN BadTimestamp ELSE base + (i - 1) * p.gap
             tx == IF direction = "in"
                   THEN newTransaction(txs, Spoke(direction, i), hub, amt, ts)
                   ELSE newTransaction(txs, hub, Spoke(direction, i), amt, ts)
         IN fanBlock(Append(txs, tx), direction, hub, p, i + 1)

\* Batches built from whole scenarios, taken in this order, each at most once; a
\* scenario is a list of <<sender, receiver, amount>>, one transfer an hour.
\* The first is Scenario A, the second the same cycle the other way round, the
\* third a second cycle through A, then a fan-in to A, a fan-out from A, two
\* fan-ins whose hubs pay each other and share their other senders, a fan-out of
\* empty transfers, and Scenario D: a chain through three accounts of two
\* transactions each, between two accounts of four.
Scenarios ==
    << << <<"A", "B", 10>>, <<"B", "C", 10>>, <<"C", "A", 10>> >>,
       << <<"A", "C", 10>>, <<"C", "B", 10>>, <<"B", "A", 10>> >>,
       << <<"A", "D", 10>>, <<"D", "E", 10>>, <<"E", "A", 10>> >>,
       [i \in 1..10 |-> <<Spoke("in", i), "A", 5>>],
       [i \in 1..10 |-> <<"A", Spoke("out", i), 5>>],
       << <<"B", "A", 20>> >> \o [i \in 1..9 |-> <<Spoke("in", i), "A", 5>>],
       << <<"A", "B", 20>> >> \o [i \in 1..9 |-> <<Spoke("in", i), "B", 5>>],
       [i \in 1..10 |-> <<"HUB", Spoke("out", i), 0>>],
       << <<"G", "SRC", 10>>, <<"G", "SRC", 10>>, <<"G", "SRC", 10>>,
          <<"SRC", "M1", 10>>, <<"M1", "M2", 10>>, <<"M2", "M3", 10>>, <<"M3", "DST", 10>>,
          <<"DST", "H", 10>>, <<"DST", "H", 10>>, <<"DST", "H", 10>> >> >>

\* The transfers of the scenarios, as <<scenario, position>>, whose timestamp text
\* does not parse: the transfer that closes the third cycle and the hub-to-hub
\* transfer of the first twin fan-in
Unparseable == {<<3, 3>>, <<6, 1>>}

RECURSIVE appendScenario(_, _, _)
appendScenario(txs, k, i) ==
    IF i > Len(Scenarios[k]) THEN txs
    ELSE appendScenario(Append(txs, newTransaction(txs, Scenarios[k][i][1], Scenarios[k][i][2],
                                                   Scenarios[k][i][3],
                                                   IF <<k, i>> \in Unparseable
                                                   THEN BadTimestamp ELSE Len(txs))),
                        k, i + 1)

TypeOK ==
    /\ pc \in {"input", "cycles", "shells", "done"}
    /\ spent \in Nat

Init ==
    /\ transactions = <<>>
    /\ spent = 0
    /\ pc = "input"
    /\ run = <<>>
    /\ result = <<>>

\* The caller appends one transfer to the batch it will pass
AddTransaction ==
    /\ pc = "input"
    /\ LET used == coreUsed(transactions)
       IN \E s \in (IF used = <<>> THEN nextNew(used) ELSE Range(used)) :
          \E r \in Range(used) \cup {s} \cup nextNew(SetAdd(used, s)) :
          \E a \in 1..Len(Amounts) :
             LET cost == 1 + (IF used # <<>> /\ s # lastReceiver(transactions) THEN 2 ELSE 0)
                           + (IF a > 1 THEN 2 ELSE 0)
             IN /\ spent + cost <= MaxCost
                /\ spent' = spent + cost
                /\ transactions' = Append(transactions,
                        newTransaction(transactions, s, r, Amounts[a], Len(transactions)))
    /\ UNCHANGED <<pc, run, result>>

\* The caller appends a hub block: n transfers between a hub and n counterparties
AddFan ==
    /\ pc = "input"
    /\ spent + 4 <= MaxCost
    /\ \E direction \in {"in", "out"} :
       \E hub \in FanHubs \cup Range(coreUsed(transactions)) :
       \E p \in FanProfiles :
          transactions' = fanBlock(transactions, direction, hub, p, 1)
    /\ spent' = spent + 4
    /\ UNCHANGED <<pc, run, result>>

\* analyzeTransactions(transactions) when the filter removes every transaction
AnalyzeEmpty ==
    /\ pc = "input"
    /\ \E out \in {analyzeTransactions(transactions)} :
          /\ Len(out.locals.filteredTransactions) = 0
          /\ run' = out.locals
          /\ result' = out.returned
    /\ pc' = "done"
    /\ UNCHANGED <<transactions, spent>>

\* analyzeTransactions(transactions) when some transaction survives the filter
AnalyzeDetect ==
    /\ pc = "input"
    /\ \E out \in {analyzeTransactions(transactions)} :
          /\ Len(out.locals.filteredTransactions) > 0
          /\ run' = out.locals
          /\ result' = out.returned
    /\ pc' = "done"
    /\ UNCHANGED <<transactions, spent>>

Next == AddTransaction \/ AddFan \/ AnalyzeEmpty \/ AnalyzeDetect

Spec == Init /\ [][Next]_vars

\* The caller appends a whole scenario, later in the list than the last one appended
\* (spent holds its position)
AddScenario ==
    /\ pc = "input"
    /\ \E k \in (spent + 1)..Len(Scenarios) :
          /\ transactions' = appendScenario(transactions, k, 1)
          /\ spent' = k
    /\ UNCHANGED <<pc, run, result>>

NextScenarios == AddScenario \/ AnalyzeEmpty \/ AnalyzeDetect

SpecScenarios == Init /\ [][NextScenarios]_vars

-----------------------------------------------------------------------------
(* The two depth-first searches, one call or one loop iteration at a time *)

\* Small graphs, taken in this order, each at most once: a self-loop, a 2-cycle,
\* two transfers that close a 3-cycle with the 2-cycle, a 6-cycle among accounts
\* of two transactions each, and a chain through two accounts of two transactions
\* each between two accounts of four
SearchGraphs ==
    << << <<"A", "A", 10>> >>,
       << <<"A", "B", 10>>, <<"B", "A", 10>> >>,
       << <<"B", "C", 10>>, <<"C", "A", 10>> >>,
       << <<"D", "E", 10>>, <<"E", "F", 10>>, <<"F", "G", 10>>,
          <<"G", "H", 10>>, <<"H", "M1", 10>>, <<"M1", "D", 10>> >>,
       << <<"S1", "SRC", 10>>, <<"S2", "SRC", 10>>, <<"S3", "SRC", 10>>,
          <<"SRC", "M2", 10>>, <<"M2", "M3", 10>>, <<"M3", "DST", 10>>,
          <<"DST", "E1", 10>>, <<"DST", "E2", 10>>, <<"DST", "E3", 10>> >> >>

RECURSIVE appendEdges(_, _, _)
appendEdges(txs, edges, i) ==
    IF i > Len(edges) THEN txs
    ELSE appendEdges(Append(txs, newTransaction(txs, edges[i][1], edges[i][2], edges[i][3], Len(txs))),
                     edges, i + 1)

\* The call stack of dfs: one frame for each call in progress, with the account it
\* was called on and the position of its loop over the neighbours. path holds the
\* accounts of the frames, and visited is the set of them.
pathOf(stack) == [i \in 1..Len(stack) |-> stack[i].node]

\* dfs is called on node: path.push, visited.add
callDfs(s, node) == [s EXCEPT !.stack = Append(@, [node |-> node, next |-> 1])]

\* dfs returns: path.pop, visited.delete; the outer loop moves on when the call
\* on the start node returns
returnFromDfs(s) ==
    [s EXCEPT !.stack = SubSeq(@, 1, Len(@) - 1),
              !.start = IF Len(s.stack) = 1 THEN @ + 1 ELSE @]

\* The loop over the neighbours goes on to its next iteration
nextNeighbor(s) == [s EXCEPT !.stack[Len(s.stack)].next = @ + 1]

\* One iteration of the loop over the neighbours in dfs of detectCycles, at depth
\* depth, s being the state with the loop position moved past neighbor
cycleDfsNeighbor(startNode, s, neighbor, depth) ==
    IF neighbor = startNode /\ depth >= MIN_CYCLE
    THEN [s EXCEPT !.cycles = Append(@, pathOf(s.stack))]
    ELSE IF ~Contains(pathOf(s.stack), neighbor) /\ depth < MAX_DEPTH /\ ~(depth + 1 > MAX_DEPTH)
         THEN callDfs(s, neighbor)
         ELSE s

\* One step of detectCycles: the call of dfs on the next start node, an iteration
\* of the loop of the innermost call, or its return
cycleDfsStep(adj, allAccounts, s) ==
    IF s.stack = <<>> THEN callDfs(s, allAccounts[s.start])
    ELSE IF s.stack[Len(s.stack)].next > Len(Neighbors(adj, s.stack[Len(s.stack)].node))
         THEN returnFromDfs(s)
         ELSE cycleDfsNeighbor(allAccounts[s.start], nextNeighbor(s),
                               Neighbors(adj, s.stack[Len(s.stack)].node)[s.stack[Len(s.stack)].next],
                               Len(s.stack))

\* Variant of shellDfsNeighbor that does not look whether the neighbour is on the
\* path
shellDfsNeighborReentering(adj, accountStats, s, neighbor) ==
    IF Contains(s.st.cycleNodes, neighbor) THEN s
    ELSE IF isShellDegree(totalTx(accountStats, neighbor))
         THEN callDfs([s EXCEPT !.chains =
                            @ \o shellDestinations(adj, accountStats, s.st.cycleNodes,
                                                   Append(pathOf(s.stack), neighbor))
                              \o (IF Len(s.stack) + 1 >= 3
                                  THEN <<Append(pathOf(s.stack), neighbor)>> ELSE <<>>)],
                      neighbor)
         ELSE s

\* One iteration of the loop over the neighbours in dfs of detectShellNetworks
shellDfsNeighbor(adj, accountStats, s, neighbor) ==
    IF Contains(pathOf(s.stack), neighbor) THEN s
    ELSE IF Contains(s.st.cycleNodes, neighbor) THEN s
    ELSE IF isShellDegree(totalTx(accountStats, neighbor))
         THEN callDfs([s EXCEPT !.chains =
                            @ \o shellDestinations(adj, accountStats, s.st.cycleNodes,
                                                   Append(pathOf(s.stack), neighbor))
                              \o (IF Len(s.stack) + 1 >= 3
                                  THEN <<Append(pathOf(s.stack), neighbor)>> ELSE <<>>)],
                      neighbor)
         ELSE s

\* One step of detectShellNetworks: a start node set aside or the call of dfs on
\* it, an iteration of the loop of the innermost call, or its return
shellDfsStep(adj, accountStats, allNodes, s) ==
    IF s.stack = <<>>
    THEN IF Contains(s.st.cycleNodes, allNodes[s.start]) THEN [s EXCEPT !.start = @ + 1]
         ELSE callDfs(s, allNodes[s.start])
    ELSE IF s.stack[Len(s.stack)].next > Len(Neighbors(adj, s.stack[Len(s.stack)].node))
         THEN returnFromDfs(s)
         ELSE shellDfsNeighbor(adj, accountStats, nextNeighbor(s),
                               Neighbors(adj, s.stack[Len(s.stack)].node)[s.stack[Len(s.stack)].next])

\* The caller appends a whole graph, later in the list than the last one appended
AddGraph ==
    /\ pc = "input"
    /\ \E k \in (spent + 1)..Len(SearchGraphs) :
          /\ transactions' = appendEdges(transactions, SearchGraphs[k], 1)
          /\ spent' = k
    /\ UNCHANGED <<pc, run, result>>

\* analyzeTransactions is called, some transaction survives the filter, the
\* account list, the adjacency index and the statistics are built, and
\* detectCycles is entered
StartSearch ==
    /\ pc = "input"
    /\ \E legitimateAccounts \in {detectLegitimateAccounts(transactions)} :
       \E filteredTransactions \in {removeLegitimateTransactions(transactions, legitimateAccounts)} :
          /\ Len(filteredTransactions) > 0
          /\ run' = [legitimateAccounts |-> legitimateAccounts,
                     filteredTransactions |-> filteredTransactions,
                     allAccounts |-> getAllAccounts(filteredTransactions),
                     adj |-> buildAdjacencyList(filteredTransactions),
                     accountStats |-> computeAccountStats(filteredTransactions),
                     start |-> 1, stack |-> <<>>, cycles |-> <<>>, chains |-> <<>>,
                     smurfing |-> <<>>, st |-> emptyAssembly]
    /\ pc' = "cycles"
    /\ UNCHANGED <<transactions, spent, result>>

\* The loop over the start nodes of detectCycles is over
cyclesOver == pc = "cycles" /\ run.stack = <<>> /\ run.start > Len(run.allAccounts)

\* The loop over the start nodes of detectShellNetworks is over
shellsOver == pc = "shells" /\ run.stack = <<>> /\ run.start > Len(MapKeys(run.adj))

CycleStep ==
    /\ pc = "cycles"
    /\ ~cyclesOver
    /\ run' = cycleDfsStep(run.adj, run.allAccounts, run)
    /\ UNCHANGED <<transactions, spent, pc, result>>

\* detectCycles drops the duplicates and returns, the cycle loop and the two
\* smurfing loops build their rings, and detectShellNetworks is entered
EnterShells ==
    /\ cyclesOver
    /\ \E smurfing \in {detectSmurfing(transactions)} :
          run' = [run EXCEPT !.start = 1,
                             !.cycles = uniqueCycles(@),
                             !.smurfing = smurfing,
                             !.st = assembleFanOut(assembleFanIn(assembleCycles(emptyAssembly,
                                                                                uniqueCycles(run.cycles)),
                                                                 smurfing.fanInAccounts),
                                                   smurfing.fanOutAccounts)]
    /\ pc' = "shells"
    /\ UNCHANGED <<transactions, spent, result>>

ShellStep ==
    /\ pc = "shells"
    /\ ~shellsOver
    /\ run' = shellDfsStep(run.adj, run.accountStats, MapKeys(run.adj), run)
    /\ UNCHANGED <<transactions, spent, pc, result>>

\* detectShellNetworks sorts and thins the chains and returns, the shell loop
\* builds its rings, and the accounts are scored; the rest of analyzeTransactions
\* has no search in it
FinishSearch ==
    /\ shellsOver
    /\ \E out \in {scoreAccounts(transactions, getAllAccounts(transactions), run.legitimateAccounts,
                                  run.filteredTransactions, run.accountStats, run.cycles, run.smurfing,
                                  assembleShells(run.st, uniqueChains(sortChains(run.chains))))} :
          /\ run' = out.locals
          /\ result' = out.returned
    /\ pc' = "done"
    /\ UNCHANGED <<transactions, spent>>

NextSearch == AddGraph \/ AnalyzeEmpty \/ StartSearch \/ CycleStep \/ EnterShells \/ ShellStep \/ FinishSearch

\* analyzeTransactions is synchronous: once called it runs, on one thread, until
\* it returns. So a step of a search that can be taken is taken, and a search that
\* is over is left: EnterShells and FinishSearch, which are the only steps that
\* change pc there, can be taken wherever cyclesOver and shellsOver hold.
SpecSearch ==
    /\ Init
    /\ [][NextSearch]_vars
    /\ WF_vars(CycleStep) /\ WF_vars(ShellStep)
    /\ WF_pc(cyclesOver /\ pc' = "shells") /\ WF_pc(shellsOver /\ pc' = "done")
-----------------------------------------------------------------------------
(* Properties of the returned object *)

Done == pc = "done"

rings == result.fraud_rings

suspects == result.suspicious_accounts

ringsOfType(type) == {i \in 1..Len(rings) : rings[i].pattern_type = type}

memberSet(i) == Range(rings[i].member_accounts)

inSomeRing(a) == \E i \in 1..Len(rings) : a \in memberSet(i)

nodeOf(a) == CHOOSE n \in Range(result.nodes) : n.id = a

hasEdge(txs, a, b) == \E i \in 1..Len(txs) : txs[i].sender_id = a /\ txs[i].receiver_id = b

sumOut(txs, a) == SumSeq([i \in 1..Len(txs) |-> IF txs[i].sender_id = a THEN txs[i].amount ELSE 0])

sumIn(txs, a) == SumSeq([i \in 1..Len(txs) |-> IF txs[i].receiver_id = a THEN txs[i].amount ELSE 0])

endpoints(txs, a) ==
    SumSeq([i \in 1..Len(txs) |->
        (IF txs[i].sender_id = a THEN 1 ELSE 0) + (IF txs[i].receiver_id = a THEN 1 ELSE 0)])

\* C1: no account classified as legitimate business is a member of any emitted
\* ring, and the node of every such account has patterns exactly
\* ["legitimate_business"].
C1_LegitimateInNoRing ==
    Done => \A a \in Range(run.legitimateAccounts) :
                /\ ~inSomeRing(a)
                /\ nodeOf(a).patterns = <<"legitimate_business">>

\* Scenario B: ten transfers of $50, S1..S10 to HUB, one an hour
IsScenarioB(txs) ==
    /\ Len(txs) = 10
    /\ \A i \in 1..10 :
          /\ txs[i].sender_id = "S" \o ToString(i)
          /\ txs[i].receiver_id = "HUB"
          /\ txs[i].amount = 5
          /\ txs[i].timestamp \in 0..10

ScenarioBSenders == [i \in 1..10 |-> "S" \o ToString(i)]

\* C2 as stated: on Scenario B analyze returns exactly one ring, RING_001 of type
\* fan_in with members [HUB, S1, ..., S10] and risk 90.0, and each sender is a
\* suspicious account with score 25.
C2_ScenarioBOneFanInRing ==
    (Done /\ IsScenarioB(transactions)) =>
        /\ rings = <<[ring_id |-> "RING_001",
                      member_accounts |-> <<"HUB">> \o ScenarioBSenders,
                      pattern_type |-> "fan_in",
                      risk_score |-> 900]>>
        /\ \A i \in 1..10 : \E k \in 1..Len(suspects) :
              suspects[k].account_id = ScenarioBSenders[i] /\ suspects[k].suspicion_score = 250

\* C2 amended: on Scenario B, HUB is classified legitimate, all ten transfers are
\* removed by the filter, and analyze returns no ring and no suspicious account,
\* eleven nodes (HUB tagged legitimate_business) and the ten edges.
C2_ScenarioBFilteredOut ==
    (Done /\ IsScenarioB(transactions)) =>
        /\ run.legitimateAccounts = <<"HUB">>
        /\ run.filteredTransactions = <<>>
        /\ rings = <<>>
        /\ suspects = <<>>
        /\ Len(result.nodes) = 11
        /\ nodeOf("HUB").patterns = <<"legitimate_business">>
        /\ Len(result.edges) = 10

C2_Witness == Done /\ IsScenarioB(transactions)

ringIdOf(i) ==
    IF i < 10 THEN "RING_00" \o ToString(i)
    ELSE IF i < 100 THEN "RING_0" \o ToString(i)
    ELSE "RING_" \o ToString(i)

\* C4: the i-th ring of fraud_rings has ring_id RING_ followed by i zero-padded to
\* width 3; the counter stands one past the number of rings, so a candidate skipped
\* by deduplication consumed no number.
C4_RingIdsContiguous ==
    Done => /\ \A i \in 1..Len(rings) : rings[i].ring_id = ringIdOf(i)
            /\ run.ringCounter = Len(rings) + 1

C4_Witness == Done /\ run.skipped >= 1 /\ Len(rings) >= 1 /\ rings[Len(rings)].ring_id = "RING_001"

\* C5: no member of a cycle ring is a member of any shell_network ring.
C5_CycleMembersInNoShell ==
    Done => \A c \in ringsOfType("cycle") : \A s \in ringsOfType("shell_network") :
                memberSet(c) \cap memberSet(s) = {}

\* A cycle ring and a shell ring, with a transfer from a cycle member X to the
\* first account of the chain, itself of shell degree: but for the cycle, the chain
\* would start at X
C5_Witness ==
    /\ Done
    /\ \E c \in ringsOfType("cycle") : \E s \in ringsOfType("shell_network") :
          \E x \in memberSet(c) :
             /\ hasEdge(run.filteredTransactions, x, rings[s].member_accounts[1])
             /\ endpoints(run.filteredTransactions, rings[s].member_accounts[1]) \in SHELL_MIN_TX..SHELL_MAX_TX

\* C6: every cycle ring has between 3 and 5 members, all distinct, and consecutive
\* members (wrapping from last to first) are joined by a directed edge of the
\* filtered transaction graph.
C6_CycleRingsWellFormed ==
    Done => \A c \in ringsOfType("cycle") :
                LET m == rings[c].member_accounts
                IN /\ Len(m) >= 3
                   /\ Len(m) <= 5
                   /\ Cardinality(Range(m)) = Len(m)
                   /\ \A i \in 1..Len(m) :
                         hasEdge(run.filteredTransactions, m[i], m[(i % Len(m)) + 1])

\* A cycle ring in a graph that also holds a 2-cycle and a self-loop
C6_Witness ==
    /\ Done
    /\ ringsOfType("cycle") # {}
    /\ \E a, b \in Range(Universe(run.filteredTransactions)) :
          /\ a # b
          /\ hasEdge(run.filteredTransactions, a, b)
          /\ hasEdge(run.filteredTransactions, b, a)
          /\ hasEdge(run.filteredTransactions, a, a)

\* C7: the account_ids of suspicious_accounts are the union of member_accounts over
\* all rings, each account exactly once.
C7_SuspiciousIffInRing ==
    Done => /\ {suspects[k].account_id : k \in 1..Len(suspects)} = UNION {memberSet(i) : i \in 1..Len(rings)}
            /\ \A k, l \in 1..Len(suspects) : suspects[k].account_id = suspects[l].account_id => k = l

\* Rings were emitted and some account of the batch is in none
C7_Witness ==
    /\ Done
    /\ Len(rings) >= 1
    /\ \E n \in Range(result.nodes) : ~n.suspicious /\ ~inSomeRing(n.id)

\* Position of an account in the order accounts first got a label: the members of
\* the rings, ring after ring
firstLabelled(a) == IndexOf(Dedup(Flatten([i \in 1..Len(rings) |-> rings[i].member_accounts])), a)

\* C8: suspicious_accounts is ordered by non-increasing suspicion_score, and
\* accounts with equal score keep the order in which they first got a label.
C8_SortedByScoreStable ==
    Done => \A k, l \in 1..Len(suspects) :
                k < l =>
                    /\ suspects[k].suspicion_score >= suspects[l].suspicion_score
                    /\ suspects[k].suspicion_score = suspects[l].suspicion_score
                          => firstLabelled(suspects[k].account_id) < firstLabelled(suspects[l].account_id)

\* The sort moved an account ahead of one labelled before it, and left a tie in place
C8_Witness ==
    /\ Done
    /\ \E k, l \in 1..Len(suspects) :
          k < l /\ firstLabelled(suspects[k].account_id) > firstLabelled(suspects[l].account_id)
    /\ \E k, l \in 1..Len(suspects) :
          k < l /\ suspects[k].suspicion_score = suspects[l].suspicion_score

\* C9: nodes holds exactly one record per account that occurs as sender or receiver
\* of an input transaction, in first-occurrence order, and no other record.
C9_OneNodePerAccount ==
    Done => [i \in 1..Len(result.nodes) |-> result.nodes[i].id] = Universe(transactions)

\* A legitimate node, a suspicious node and a node that is neither
C9_Witness ==
    /\ Done
    /\ \E n \in Range(result.nodes) : Contains(run.legitimateAccounts, n.id)
    /\ \E n \in Range(result.nodes) : n.suspicious
    /\ \E n \in Range(result.nodes) : ~n.suspicious /\ ~Contains(run.legitimateAccounts, n.id)

\* C10: whether or not a transaction survives the filter, each node's total_sent,
\* total_received and transaction_count are the sum of outgoing amounts, the sum of
\* incoming amounts and the number of transaction endpoints of its account over the
\* whole unfiltered input.
C10_NodeTotalsUnfiltered ==
    Done => \A n \in Range(result.nodes) :
                /\ n.total_sent = sumOut(transactions, n.id)
                /\ n.total_received = sumIn(transactions, n.id)
                /\ n.transaction_count = endpoints(transactions, n.id)


\* C11: every suspicion_score in suspicious_accounts and in nodes and every
\* risk_score in fraud_rings lies between 0.0 and 100.0 (0 and 1000 tenths).
C11_ScoresInRange ==
    Done =>
        /\ \A k \in 1..Len(suspects) : suspects[k].suspicion_score \in 0..1000
        /\ \A n \in Range(result.nodes) : n.suspicion_score \in 0..1000
        /\ \A i \in 1..Len(rings) : rings[i].risk_score \in 0..1000

\* An account in two cycle rings, a fan-in ring and a fan-out ring inside 72 hours:
\* its parts add up to 45 + 25 + 25 + 15 = 110, and it is returned with 100.0
C11_Witness ==
    /\ Done
    /\ \E k \in 1..Len(suspects) :
          /\ suspects[k].suspicion_score = 1000
          /\ nodeOf(suspects[k].account_id).suspicion_score = 1000
          /\ Contains(suspects[k].detected_patterns, "fan_in")
          /\ Contains(suspects[k].detected_patterns, "fan_out")
          /\ Cardinality({i \in ringsOfType("cycle") : suspects[k].account_id \in memberSet(i)}) >= 2

touchesLegitimate(t) ==
    Contains(run.legitimateAccounts, t.sender_id) \/ Contains(run.legitimateAccounts, t.receiver_id)

distinctCounterparties(txs, a) ==
    Cardinality({txs[i].receiver_id : i \in {k \in 1..Len(txs) : txs[k].sender_id = a}}
                \cup {txs[i].sender_id : i \in {k \in 1..Len(txs) : txs[k].receiver_id = a}})

\* Scenario C: ten transfers of $2000, ACME_CORP_PAYROLL to E1..E10, one an hour
IsScenarioC(txs) ==
    /\ Len(txs) = 10
    /\ \A i \in 1..10 :
          /\ txs[i].sender_id = "ACME_CORP_PAYROLL"
          /\ txs[i].receiver_id = "E" \o ToString(i)
          /\ txs[i].amount = 200
          /\ txs[i].timestamp \in 0..10

\* C13: when every input transaction touches a legitimate account, no detector has
\* run and analyze returns no ring and no suspicious account, one node per account
\* of the input with patterns ["legitimate_business"] for a legitimate account and
\* [] for any other, and every input transaction as an edge, however many
\* counterparties an account has; on Scenario C that is 11 nodes and 10 edges.
C13_AllFilteredReturnsNothing ==
    (Done /\ \A i \in 1..Len(transactions) : touchesLegitimate(transactions[i])) =>
        /\ rings = <<>> /\ suspects = <<>>
        /\ run.cycles = <<>> /\ run.fanInAccounts = <<>> /\ run.fanOutAccounts = <<>>
        /\ run.accountPatterns = <<>> /\ run.ringCounter = 1
        /\ result.summary.fraud_rings_detected = 0
        /\ result.summary.suspicious_accounts_flagged = 0
        /\ [i \in 1..Len(result.nodes) |-> result.nodes[i].id] = Universe(transactions)
        /\ \A n \in Range(result.nodes) :
              /\ n.patterns = IF Contains(run.legitimateAccounts, n.id)
                              THEN <<"legitimate_business">> ELSE <<>>
              /\ ~n.suspicious /\ n.ring_ids = <<>>
        /\ Len(result.edges) = Len(transactions)
        /\ \A i \in 1..Len(transactions) :
              /\ result.edges[i].source = transactions[i].sender_id
              /\ result.edges[i].target = transactions[i].receiver_id
              /\ result.edges[i].amount = transactions[i].amount
              /\ result.edges[i].transaction_id = transactions[i].transaction_id
        /\ IsScenarioC(transactions) => Len(result.nodes) = 11 /\ Len(result.edges) = 10

\* Scenario C has been analysed: the payroll account has ten counterparties, is
\* tagged legitimate, and every transfer was removed
C13_Witness ==
    /\ Done
    /\ IsScenarioC(transactions)
    /\ distinctCounterparties(transactions, "ACME_CORP_PAYROLL") >= 10
    /\ \A i \in 1..Len(transactions) : touchesLegitimate(transactions[i])
    /\ nodeOf("ACME_CORP_PAYROLL").patterns = <<"legitimate_business">>
    /\ nodeOf("E1").patterns = <<>>

outgoing(txs, a) == {i \in 1..Len(txs) : txs[i].sender_id = a}

incoming(txs, a) == {i \in 1..Len(txs) : txs[i].receiver_id = a}

\* The sum of the amounts of the transactions at the positions idx
RECURSIVE amountOver(_, _)
amountOver(txs, idx) ==
    IF idx = {} THEN 0
    ELSE LET i == CHOOSE k \in idx : TRUE IN txs[i].amount + amountOver(txs, idx \ {i})

\* n^2 times the sum of squared deviations from the mean of the amounts at idx
RECURSIVE scaledDeviation(_, _, _, _)
scaledDeviation(txs, idx, n, total) ==
    IF idx = {} THEN 0
    ELSE LET i == CHOOSE k \in idx : TRUE
         IN (n * txs[i].amount - total) * (n * txs[i].amount - total)
            + scaledDeviation(txs, idx \ {i}, n, total)

\* Coefficient of variation under 0.3: sd / mean < 3/10, squared and cleared of
\* fractions (sd^2 = deviation / n^3 and mean^2 = total^2 / n^2); a zero mean fails
cvUnderThreshold(txs, idx) ==
    /\ amountOver(txs, idx) # 0
    /\ 100 * scaledDeviation(txs, idx, Cardinality(idx), amountOver(txs, idx))
          < 9 * Cardinality(idx) * amountOver(txs, idx) * amountOver(txs, idx)

\* Flow ratio under 0.15: the ratio is 0 when either total is 0, min / max otherwise
flowUnderThreshold(sent, received) ==
    \/ sent = 0
    \/ received = 0
    \/ (sent <= received /\ 100 * sent < 15 * received)
    \/ (received <= sent /\ 100 * received < 15 * sent)

uniqueReceiversOf(txs, a) == Cardinality({txs[i].receiver_id : i \in outgoing(txs, a)})

uniqueSendersOf(txs, a) == Cardinality({txs[i].sender_id : i \in incoming(txs, a)})

ruleKeyword(a) == \E k \in 1..Len(businessKeywords) : includes(toUpperCase(a), businessKeywords[k])

rulePayroll(txs, a) ==
    /\ uniqueReceiversOf(txs, a) >= 5
    /\ Cardinality(outgoing(txs, a)) >= 5
    /\ cvUnderThreshold(txs, outgoing(txs, a))
    /\ flowUnderThreshold(sumOut(txs, a), sumIn(txs, a))

ruleCollector(txs, a) ==
    /\ uniqueSendersOf(txs, a) >= 5
    /\ Cardinality(incoming(txs, a)) >= 5
    /\ cvUnderThreshold(txs, incoming(txs, a))
    /\ flowUnderThreshold(sumOut(txs, a), sumIn(txs, a))

ruleMerchant(txs, a) ==
    /\ uniqueSendersOf(txs, a) >= 8
    /\ uniqueReceiversOf(txs, a) <= 3
    /\ sumIn(txs, a) > 5 * sumOut(txs, a)

rulePurePayer(txs, a) ==
    /\ uniqueReceiversOf(txs, a) >= 5
    /\ uniqueSendersOf(txs, a) <= 1
    /\ sumOut(txs, a) > 5 * sumIn(txs, a)

\* C14: an account of the batch is classified legitimate if and only if one of the
\* five rules (keyword, payroll, collector, merchant, pure payer) holds of it on
\* the unfiltered batch, with the flow ratio 0 when either total is 0 and the CV
\* test failing on a zero mean; no other id is classified.
C14_LegitimateIffSomeRule ==
    Done =>
        /\ Range(run.legitimateAccounts) \subseteq Range(Universe(transactions))
        /\ \A a \in Range(Universe(transactions)) :
              Contains(run.legitimateAccounts, a)
                  <=> \/ ruleKeyword(a)
                      \/ rulePayroll(transactions, a)
                      \/ ruleCollector(transactions, a)
                      \/ ruleMerchant(transactions, a)
                      \/ rulePurePayer(transactions, a)

\* An account without a keyword is legitimate by the collector rule, and an account
\* that pays ten receivers amounts of mean zero is not legitimate
C14_Witness ==
    /\ Done
    /\ \E a \in Range(run.legitimateAccounts) : ~ruleKeyword(a) /\ ruleCollector(transactions, a)
    /\ \E a \in Range(Universe(transactions)) :
          /\ uniqueReceiversOf(transactions, a) >= 5
          /\ sumOut(transactions, a) = 0
          /\ ~Contains(run.legitimateAccounts, a)

classifiedByRules(txs, a) ==
    \/ ruleKeyword(a)
    \/ rulePayroll(txs, a)
    \/ ruleCollector(txs, a)
    \/ ruleMerchant(txs, a)
    \/ rulePurePayer(txs, a)

\* Every step of the walk, and the step from its last account back to its first
\* when closed, is a transaction of txs
walkIn(txs, walk, closed) ==
    /\ \A k \in 1..(Len(walk) - 1) : hasEdge(txs, walk[k], walk[k + 1])
    /\ closed => hasEdge(txs, walk[Len(walk)], walk[1])

\* C15: the filtered batch is the input-order subsequence of the transactions whose
\* sender and receiver both fail every legitimacy rule on the unfiltered batch, and
\* the cycles and the shell chains found run along transactions of that batch.
C15_FilteredIsSubsequence ==
    Done =>
        /\ LET Keep(t) == /\ ~classifiedByRules(transactions, t.sender_id)
                          /\ ~classifiedByRules(transactions, t.receiver_id)
           IN run.filteredTransactions = SelectSeq(transactions, Keep)
        /\ \A c \in 1..Len(run.cycles) : walkIn(run.filteredTransactions, run.cycles[c], TRUE)
        /\ \A i \in ringsOfType("shell_network") :
              walkIn(run.filteredTransactions, rings[i].member_accounts, FALSE)

\* Part of the batch was removed, and an account that stays fails the rules on the
\* whole batch although it meets one on what is left
C15_Witness ==
    /\ Done
    /\ Len(run.filteredTransactions) > 0
    /\ Len(run.filteredTransactions) < Len(transactions)
    /\ \E a \in Range(Universe(run.filteredTransactions)) :
          /\ ~classifiedByRules(transactions, a)
          /\ classifiedByRules(run.filteredTransactions, a)

\* The distinct senders to a, and the distinct receivers from a, in the order the
\* input first shows them
sendersInOrder(txs, a) ==
    LET To(t) == t.receiver_id = a
    IN insertionOrder([i \in 1..Len(SelectSeq(txs, To)) |-> SelectSeq(txs, To)[i].sender_id])

receiversInOrder(txs, a) ==
    LET From(t) == t.sender_id = a
    IN insertionOrder([i \in 1..Len(SelectSeq(txs, From)) |-> SelectSeq(txs, From)[i].receiver_id])

hasRing(type, members) ==
    \E i \in ringsOfType(type) : rings[i].member_accounts = members

\* A ring of the type headed by another account has the same members once sorted
sameMembersUnderOtherHead(type, members) ==
    \E i \in ringsOfType(type) :
        /\ rings[i].member_accounts[1] # members[1]
        /\ SortIds(rings[i].member_accounts) = SortIds(members)

fanHeadsHaveTen ==
    /\ \A i \in ringsOfType("fan_in") :
          uniqueSendersOf(transactions, rings[i].member_accounts[1]) >= 10
    /\ \A i \in ringsOfType("fan_out") :
          uniqueReceiversOf(transactions, rings[i].member_accounts[1]) >= 10

\* C16 as stated: when a transaction survives the filter, every account with ten or
\* more distinct senders in the unfiltered input has a fan_in ring [receiver,
\* senders in first-observed order], every account with ten or more distinct
\* receivers a fan_out ring [sender, receivers in first-observed order], and no
\* account with fewer heads such a ring.
C16_EveryHubHasRing ==
    (Done /\ Len(run.filteredTransactions) > 0) =>
        /\ \A a \in Range(Universe(transactions)) :
              /\ uniqueSendersOf(transactions, a) >= 10
                    => hasRing("fan_in", <<a>> \o sendersInOrder(transactions, a))
              /\ uniqueReceiversOf(transactions, a) >= 10
                    => hasRing("fan_out", <<a>> \o receiversInOrder(transactions, a))
        /\ fanHeadsHaveTen

\* C16 amended: as stated, except that a hub has no ring of its own when a ring of
\* the same type with the same member accounts, compared as sorted lists, was
\* emitted for another hub.
C16_EveryHubHasRingUnlessDuplicate ==
    (Done /\ Len(run.filteredTransactions) > 0) =>
        /\ \A a \in Range(Universe(transactions)) :
              /\ uniqueSendersOf(transactions, a) >= 10
                    => \/ hasRing("fan_in", <<a>> \o sendersInOrder(transactions, a))
                       \/ sameMembersUnderOtherHead("fan_in", <<a>> \o sendersInOrder(transactions, a))
              /\ uniqueReceiversOf(transactions, a) >= 10
                    => \/ hasRing("fan_out", <<a>> \o receiversInOrder(transactions, a))
                       \/ sameMembersUnderOtherHead("fan_out", <<a>> \o receiversInOrder(transactions, a))
        /\ fanHeadsHaveTen

\* Two hubs that pay each other and share their nine other senders: the first has
\* its fan_in ring, the second has none
C16_Witness ==
    /\ Done
    /\ Len(run.filteredTransactions) > 0
    /\ \E a, b \in Range(Universe(transactions)) :
          /\ a # b
          /\ uniqueSendersOf(transactions, a) >= 10
          /\ uniqueSendersOf(transactions, b) >= 10
          /\ hasRing("fan_in", <<a>> \o sendersInOrder(transactions, a))
          /\ ~hasRing("fan_in", <<b>> \o sendersInOrder(transactions, b))
    /\ \E a \in Range(Universe(transactions)) :
          hasRing("fan_out", <<a>> \o receiversInOrder(transactions, a))

HOURS_72 == WINDOW_MS \div HOUR_MS

parsed(t) == t.timestamp # BadTimestamp

\* Some transaction of idx with a parsed timestamp opens a 72-hour window in which
\* the transactions of idx with a parsed timestamp show ten distinct values of the
\* field party
tenWithin72Hours(txs, idx, party) ==
    \E o \in idx :
        /\ parsed(txs[o])
        /\ Cardinality({txs[i][party] : i \in {j \in idx :
                            /\ parsed(txs[j])
                            /\ txs[j].timestamp >= txs[o].timestamp
                            /\ txs[j].timestamp <= txs[o].timestamp + HOURS_72}}) >= 10

\* C17: in a run that reaches detection, a transaction whose timestamp does not
\* parse is left out of every 72-hour window (the temporal flag of a hub is set iff
\* its transactions with a parsed timestamp alone fill a window), yet it counts for
\* the hub's distinct counterparties (the hubs are the accounts with ten of them,
\* whatever the timestamps), for the adjacency index (a three-account cycle closed
\* by such a transaction is found) and for the statistics of its two accounts.
C17_UnparsedTimestampOnlyOutOfWindows ==
    (Done /\ Len(run.filteredTransactions) > 0) =>
        /\ \A a \in Range(Universe(transactions)) :
              /\ MapHas(run.fanInAccounts, a) <=> uniqueSendersOf(transactions, a) >= 10
              /\ MapHas(run.fanOutAccounts, a) <=> uniqueReceiversOf(transactions, a) >= 10
        /\ \A k \in 1..Len(run.fanInAccounts) :
              /\ run.fanInAccounts[k].value.temporal
                    <=> tenWithin72Hours(transactions, incoming(transactions, run.fanInAccounts[k].key),
                                         "sender_id")
              /\ run.fanInAccounts[k].value.senders
                    = sendersInOrder(transactions, run.fanInAccounts[k].key)
        /\ \A k \in 1..Len(run.fanOutAccounts) :
              /\ run.fanOutAccounts[k].value.temporal
                    <=> tenWithin72Hours(transactions, outgoing(transactions, run.fanOutAccounts[k].key),
                                         "receiver_id")
              /\ run.fanOutAccounts[k].value.receivers
                    = receiversInOrder(transactions, run.fanOutAccounts[k].key)
        /\ \A i \in 1..Len(run.filteredTransactions) :
              ~parsed(run.filteredTransactions[i]) =>
                  \A c \in Range(Universe(run.filteredTransactions)) :
                      LET s == run.filteredTransactions[i].sender_id
                          r == run.filteredTransactions[i].receiver_id
                      IN (/\ Cardinality({s, r, c}) = 3
                          /\ hasEdge(run.filteredTransactions, r, c)
                          /\ hasEdge(run.filteredTransactions, c, s))
                         => \E n \in 1..Len(run.cycles) :
                                Len(run.cycles[n]) = 3 /\ Range(run.cycles[n]) = {s, r, c}
        /\ \A i \in 1..Len(transactions) :
              ~parsed(transactions[i]) =>
                  \A a \in {transactions[i].sender_id, transactions[i].receiver_id} :
                      /\ nodeOf(a).total_sent = sumOut(transactions, a)
                      /\ nodeOf(a).total_received = sumIn(transactions, a)
                      /\ nodeOf(a).transaction_count = endpoints(transactions, a)

\* A hub has ten distinct senders only with the sender of a transaction whose
\* timestamp does not parse, and its flag is unset; another such transaction closes
\* a cycle that was found; its sender's node counts it
C17_Witness ==
    /\ Done
    /\ \E k \in 1..Len(run.fanInAccounts) :
          /\ ~run.fanInAccounts[k].value.temporal
          /\ Len(run.fanInAccounts[k].value.senders) >= 10
          /\ \E i \in incoming(transactions, run.fanInAccounts[k].key) : ~parsed(transactions[i])
          /\ hasRing("fan_in", <<run.fanInAccounts[k].key>> \o run.fanInAccounts[k].value.senders)
    /\ \E i \in 1..Len(run.filteredTransactions) :
          /\ ~parsed(run.filteredTransactions[i])
          /\ \E n \in 1..Len(run.cycles) :
                /\ run.filteredTransactions[i].sender_id = run.cycles[n][Len(run.cycles[n])]
                /\ run.filteredTransactions[i].receiver_id = run.cycles[n][1]
          /\ nodeOf(run.filteredTransactions[i].sender_id).total_sent > 0

\* Scenario A: three transfers of one amount, A to B, B to C, C to A, an hour apart
IsScenarioA(txs) ==
    /\ Len(txs) = 3
    /\ <<txs[1].sender_id, txs[1].receiver_id>> = <<"A", "B">>
    /\ <<txs[2].sender_id, txs[2].receiver_id>> = <<"B", "C">>
    /\ <<txs[3].sender_id, txs[3].receiver_id>> = <<"C", "A">>
    /\ txs[1].amount > 0 /\ txs[2].amount = txs[1].amount /\ txs[3].amount = txs[1].amount
    /\ \A i \in 1..3 : parsed(txs[i])

\* The flow ratio of a over the filtered batch lies strictly between 0.7 and 1.0
ratioStrictlyBetween(a) ==
    /\ sumOut(run.filteredTransactions, a) # sumIn(run.filteredTransactions, a)
    /\ 10 * Min2(sumOut(run.filteredTransactions, a), sumIn(run.filteredTransactions, a))
          > 7 * Max2(sumOut(run.filteredTransactions, a), sumIn(run.filteredTransactions, a))

inRingOfType(a, type) == \E i \in ringsOfType(type) : a \in memberSet(i)

\* The points of an account apart from the flow bonus, in tenths
pointsBeforeFlow(a) ==
    (IF inRingOfType(a, "cycle")
     THEN 350 + 100 * Min2(Cardinality({i \in ringsOfType("cycle") : a \in memberSet(i)}) - 1, 3)
     ELSE 0)
    + (IF inRingOfType(a, "fan_in") THEN 250 ELSE 0)
    + (IF inRingOfType(a, "fan_out") THEN 250 ELSE 0)
    + (IF inRingOfType(a, "shell_network") THEN 200 ELSE 0)
    + (IF \/ MapHas(run.fanInAccounts, a) /\ MapGet(run.fanInAccounts, a).temporal
          \/ MapHas(run.fanOutAccounts, a) /\ MapGet(run.fanOutAccounts, a).temporal
       THEN 150 ELSE 0)

\* C18: on Scenario A analyze returns exactly one ring, RING_001 of type cycle with
\* members [A, B, C] and risk 85.0, three nodes, three edges and the three accounts
\* as suspicious with score 35.0 each; and in every run an account gets the 10
\* points of the flow bonus exactly when its flow ratio is strictly between 0.7
\* and 1.0.
C18_ScenarioAOneCycleRing ==
    Done =>
        /\ IsScenarioA(transactions) =>
              /\ rings = <<[ring_id |-> "RING_001",
                            member_accounts |-> <<"A", "B", "C">>,
                            pattern_type |-> "cycle",
                            risk_score |-> 850]>>
              /\ Len(result.nodes) = 3
              /\ Len(result.edges) = 3
              /\ Len(suspects) = 3
              /\ {suspects[k].account_id : k \in 1..3} = {"A", "B", "C"}
              /\ \A k \in 1..3 : suspects[k].suspicion_score = 350
        /\ \A k \in 1..Len(suspects) :
              suspects[k].suspicion_score
                  = Min2(pointsBeforeFlow(suspects[k].account_id)
                         + (IF ratioStrictlyBetween(suspects[k].account_id) THEN 100 ELSE 0), 1000)

\* Scenario A has been analysed: each account sends what it receives, ratio 1.0
C18_Witness ==
    /\ Done
    /\ IsScenarioA(transactions)
    /\ Len(rings) = 1
    /\ \A a \in {"A", "B", "C"} :
          sumOut(run.filteredTransactions, a) = sumIn(run.filteredTransactions, a)

successors(txs, a) == {txs[i].receiver_id : i \in outgoing(txs, a)}

\* The walks of n distinct accounts along transactions of txs
RECURSIVE simplePaths(_, _)
simplePaths(txs, n) ==
    IF n = 1 THEN {<<a>> : a \in Range(Universe(txs))}
    ELSE UNION {{Append(p, v) : v \in successors(txs, p[Len(p)]) \ Range(p)} :
                   p \in simplePaths(txs, n - 1)}

\* The simple directed cycles of 3, 4 or 5 accounts, each under all its rotations
simpleCycles(txs) ==
    {p \in simplePaths(txs, 3) \cup simplePaths(txs, 4) \cup simplePaths(txs, 5) :
        hasEdge(txs, p[Len(p)], p[1])}

rotated(c, k) == [i \in 1..Len(c) |-> c[((i - 1 + k) % Len(c)) + 1]]

isRotation(c, d) == Len(c) = Len(d) /\ \E k \in 0..(Len(c) - 1) : d = rotated(c, k)

firstTransfer(txs, a, b) ==
    CHOOSE i \in 1..Len(txs) :
        /\ txs[i].sender_id = a /\ txs[i].receiver_id = b
        /\ \A j \in 1..(i - 1) : ~(txs[j].sender_id = a /\ txs[j].receiver_id = b)

\* When the search meets a cycle first: it starts from the member that occurs first
\* in the batch, and at each account takes the receivers in the order of their
\* first transfer. The key is the place of that member followed by the places of
\* the first transfers along the cycle from it.
discoveryKey(txs, c) ==
    LET place(a) == IndexOf(Universe(txs), a)
        k == CHOOSE j \in 0..(Len(c) - 1) : \A i \in 1..Len(c) : place(rotated(c, j)[1]) <= place(c[i])
    IN <<place(rotated(c, k)[1])>>
       \o [i \in 1..Len(c) |-> firstTransfer(txs, rotated(c, k)[i], rotated(c, k)[(i % Len(c)) + 1])]

lexLess(x, y) ==
    \E i \in 1..Min2(Len(x), Len(y)) : x[i] < y[i] /\ \A j \in 1..(i - 1) : x[j] = y[j]

\* C19: the cycles detectCycles returns are simple directed cycles of 3, 4 or 5
\* accounts of the filtered graph; every such cycle is returned under one of its
\* rotations and no two entries are rotations of each other; each entry starts
\* with its smallest account id; and the entries are in the order the search first
\* meets them.
C19_CyclesOnceEachInDiscoveryOrder ==
    Done =>
        /\ \A n \in 1..Len(run.cycles) : run.cycles[n] \in simpleCycles(run.filteredTransactions)
        /\ \A c \in simpleCycles(run.filteredTransactions) :
              \E n \in 1..Len(run.cycles) : isRotation(c, run.cycles[n])
        /\ \A m, n \in 1..Len(run.cycles) :
              m # n => ~isRotation(run.cycles[m], run.cycles[n])
        /\ \A n \in 1..Len(run.cycles) : \A i \in 2..Len(run.cycles[n]) :
              StrLess(run.cycles[n][1], run.cycles[n][i])
        /\ \A m, n \in 1..Len(run.cycles) :
              m < n => lexLess(discoveryKey(run.filteredTransactions, run.cycles[m]),
                               discoveryKey(run.filteredTransactions, run.cycles[n]))

\* A cycle of five accounts was met from an account that is not its smallest
C19_Witness ==
    /\ Done
    /\ \E n \in 1..Len(run.cycles) :
          /\ Len(run.cycles[n]) = 5
          /\ run.cycles[n][1] # Universe(run.filteredTransactions)[1]
          /\ Universe(run.filteredTransactions)[1] \in Range(run.cycles[n])

\* The filtered graph has the cycle a -> b -> c -> a and the cycle a -> c -> b -> a
bothDirections(a, b, c) ==
    /\ Cardinality({a, b, c}) = 3
    /\ walkIn(run.filteredTransactions, <<a, b, c>>, TRUE)
    /\ walkIn(run.filteredTransactions, <<a, c, b>>, TRUE)

\* C20 as stated: when the filtered graph holds a cycle of three accounts in both
\* directions, the result of the analysis keeps both as distinct cycles: two cycle
\* rings, one per direction.
C20_BothDirectionsInResult ==
    Done => \A a, b, c \in Range(Universe(run.filteredTransactions)) :
                bothDirections(a, b, c) =>
                    \E i, j \in ringsOfType("cycle") :
                        /\ i # j
                        /\ isRotation(<<a, b, c>>, rings[i].member_accounts)
                        /\ isRotation(<<a, c, b>>, rings[j].member_accounts)

\* C20 amended: both directions are distinct entries of the cycles detectCycles
\* returns, and the result holds exactly one cycle ring on the three accounts, that
\* of the direction met first.
C20_BothDirectionsDetectedOneRing ==
    Done => \A a, b, c \in Range(Universe(run.filteredTransactions)) :
                bothDirections(a, b, c) =>
                    /\ \E m, n \in 1..Len(run.cycles) :
                          /\ m # n
                          /\ isRotation(<<a, b, c>>, run.cycles[m])
                          /\ isRotation(<<a, c, b>>, run.cycles[n])
                    /\ Cardinality({i \in ringsOfType("cycle") : memberSet(i) = {a, b, c}}) = 1
                    /\ \A i \in ringsOfType("cycle") :
                          memberSet(i) = {a, b, c} =>
                              \A n \in 1..Len(run.cycles) :
                                  Range(run.cycles[n]) = {a, b, c} =>
                                      \E m \in 1..n : run.cycles[m] = rings[i].member_accounts

\* Scenario A and its reverse were analysed together: two cycles detected on A, B
\* and C, one ring
C20_Witness ==
    /\ Done
    /\ bothDirections("A", "B", "C")
    /\ \E m, n \in 1..Len(run.cycles) :
          m # n /\ Range(run.cycles[m]) = {"A", "B", "C"} /\ Range(run.cycles[n]) = {"A", "B", "C"}
    /\ Cardinality({i \in ringsOfType("cycle") : memberSet(i) = {"A", "B", "C"}}) = 1

\* The distinct values of the field party among the transactions at idx whose
\* timestamp lies between from and from + span hours, both included
withinHours(txs, idx, party, from, span) ==
    {txs[i][party] : i \in {j \in idx : /\ parsed(txs[j])
                                         /\ from <= txs[j].timestamp
                                         /\ txs[j].timestamp <= from + span}}

fillsWindow(txs, idx, party, span) ==
    \E o \in idx : parsed(txs[o])
                    /\ Cardinality(withinHours(txs, idx, party, txs[o].timestamp, span)) >= 10

\* C21: the temporal flag of a fan-in (fan-out) hub is true if and only if one of
\* its transactions has a timestamp t such that its transactions with a timestamp
\* in [t, t + 72 h], t + 72 h included, show at least ten distinct counterparties.
C21_TemporalFlagIffClosedWindow ==
    Done =>
        /\ \A k \in 1..Len(run.fanInAccounts) :
              run.fanInAccounts[k].value.temporal
                  <=> fillsWindow(transactions, incoming(transactions, run.fanInAccounts[k].key),
                                  "sender_id", 72)
        /\ \A k \in 1..Len(run.fanOutAccounts) :
              run.fanOutAccounts[k].value.temporal
                  <=> fillsWindow(transactions, outgoing(transactions, run.fanOutAccounts[k].key),
                                  "receiver_id", 72)

\* A hub whose flag is set although no window shorter than 72 hours is filled: its
\* tenth counterparty comes exactly 72 hours after the first
C21_Witness ==
    /\ Done
    /\ \E k \in 1..Len(run.fanInAccounts) :
          /\ run.fanInAccounts[k].value.temporal
          /\ ~fillsWindow(transactions, incoming(transactions, run.fanInAccounts[k].key),
                          "sender_id", 71)

\* Scenario D: SRC -> M1 -> M2 -> M3 -> DST, three transfers into SRC and three
\* out of DST, and nothing else
IsScenarioD(txs) ==
    /\ Len(txs) = 10
    /\ walkIn(txs, <<"SRC", "M1", "M2", "M3", "DST">>, FALSE)
    /\ \A m \in {"M1", "M2", "M3"} : endpoints(txs, m) = 2
    /\ endpoints(txs, "SRC") = 4 /\ endpoints(txs, "DST") = 4
    /\ Cardinality(incoming(txs, "SRC")) = 3 /\ Cardinality(outgoing(txs, "DST")) = 3

\* C22: every shell_network ring lists at least three distinct accounts in path
\* order, each followed by a receiver of one of its filtered transactions, and
\* every member but the first and the last has 2 or 3 transactions in the filtered
\* batch; on Scenario D exactly one ring is returned, the shell ring
\* [SRC, M1, M2, M3, DST] with risk 90.0.
C22_ShellRingsArePaths ==
    Done =>
        /\ \A i \in ringsOfType("shell_network") :
              /\ Len(rings[i].member_accounts) >= 3
              /\ Cardinality(memberSet(i)) = Len(rings[i].member_accounts)
              /\ walkIn(run.filteredTransactions, rings[i].member_accounts, FALSE)
              /\ \A k \in 2..(Len(rings[i].member_accounts) - 1) :
                    endpoints(run.filteredTransactions, rings[i].member_accounts[k]) \in {2, 3}
        /\ IsScenarioD(transactions) =>
              rings = <<[ring_id |-> "RING_001",
                         member_accounts |-> <<"SRC", "M1", "M2", "M3", "DST">>,
                         pattern_type |-> "shell_network",
                         risk_score |-> 900]>>

\* Scenario D has been analysed: the ends of its ring have four transactions each
C22_Witness ==
    /\ Done
    /\ IsScenarioD(transactions)
    /\ \E i \in ringsOfType("shell_network") :
          /\ endpoints(run.filteredTransactions, rings[i].member_accounts[1]) > 3
          /\ endpoints(run.filteredTransactions,
                       rings[i].member_accounts[Len(rings[i].member_accounts)]) > 3

\* C23: no shell_network ring's member set is a subset of the member set of another
\* shell_network ring, and the shell rings come in non-increasing order of their
\* number of members.
C23_ShellRingsNoSubsetLongestFirst ==
    Done => \A i, j \in ringsOfType("shell_network") :
                /\ i # j => ~(memberSet(i) \subseteq memberSet(j))
                /\ i < j => Len(rings[i].member_accounts) >= Len(rings[j].member_accounts)

\* Two shell rings of different sizes were returned, and a shorter walk inside the
\* longer one, itself a chain the search records, has no ring
C23_Witness ==
    /\ Done
    /\ \E i, j \in ringsOfType("shell_network") :
          /\ Len(rings[i].member_accounts) > Len(rings[j].member_accounts)
          /\ Len(rings[i].member_accounts) >= 4
          /\ \A k \in 2..(Len(rings[i].member_accounts) - 1) :
                endpoints(run.filteredTransactions, rings[i].member_accounts[k]) \in {2, 3}
          /\ ~hasRing("shell_network", SubSeq(rings[i].member_accounts, 1, 3))

\* The place of a pattern type in the order the ring loops run
categoryOf(type) ==
    CASE type = "cycle" -> 1
      [] type = "fan_in" -> 2
      [] type = "fan_out" -> 3
      [] type = "shell_network" -> 4

\* C24: in fraud_rings every cycle ring comes before every fan_in ring, every
\* fan_in ring before every fan_out ring and every fan_out ring before every
\* shell_network ring, and the ring ids carry the numbers 1, 2, ... in that order.
C24_RingsInCategoryOrder ==
    Done => \A i, j \in 1..Len(rings) :
                i < j => /\ categoryOf(rings[i].pattern_type) <= categoryOf(rings[j].pattern_type)
                         /\ rings[i].ring_id = ringIdOf(i)
                         /\ rings[j].ring_id = ringIdOf(j)

\* Rings of all four types were returned together
C24_Witness ==
    /\ Done
    /\ \A type \in {"cycle", "fan_in", "fan_out", "shell_network"} : ringsOfType(type) # {}

\* The temporal flag of the hub that heads a fan ring, from the input alone
hubFlag(i) ==
    IF rings[i].pattern_type = "fan_in"
    THEN fillsWindow(transactions, incoming(transactions, rings[i].member_accounts[1]), "sender_id", 72)
    ELSE fillsWindow(transactions, outgoing(transactions, rings[i].member_accounts[1]), "receiver_id", 72)

\* The risk of ring i by its type and size, in tenths, before the cap
riskByTypeAndSize(i) ==
    CASE rings[i].pattern_type = "cycle" -> 700 + 50 * Len(rings[i].member_accounts)
      [] rings[i].pattern_type \in {"fan_in", "fan_out"} ->
             600 + (IF hubFlag(i) THEN 250 ELSE 100) + 5 * (Len(rings[i].member_accounts) - 1)
      [] rings[i].pattern_type = "shell_network" -> 500 + 80 * Len(rings[i].member_accounts)

\* C25: the risk_score of a ring is min(100, 70 + 5 x members) for a cycle,
\* min(100, 60 + (25 if the hub's temporal flag is true, else 10) + 0.5 x
\* counterparties) for fan_in and fan_out, the hub not counted, and
\* min(100, 50 + 8 x members) for a shell network.
C25_RiskByTypeAndSize ==
    Done => \A i \in 1..Len(rings) : rings[i].risk_score = Min2(riskByTypeAndSize(i), 1000)

\* Rings of all four types, a fan ring with the flag and a fan ring without it
C25_Witness ==
    /\ Done
    /\ ringsOfType("cycle") # {} /\ ringsOfType("shell_network") # {}
    /\ \E i \in ringsOfType("fan_in") \cup ringsOfType("fan_out") : hubFlag(i)
    /\ \E i \in ringsOfType("fan_in") \cup ringsOfType("fan_out") : ~hubFlag(i)

hasCyclePattern(k) ==
    \E i \in 1..Len(suspects[k].detected_patterns) :
        \E n \in 3..5 : suspects[k].detected_patterns[i] = "cycle_length_" \o ToString(n)

\* The points of an account that do not come from cycles, in tenths
pointsApartFromCycles(a) ==
    (IF inRingOfType(a, "fan_in") THEN 250 ELSE 0)
    + (IF inRingOfType(a, "fan_out") THEN 250 ELSE 0)
    + (IF inRingOfType(a, "shell_network") THEN 200 ELSE 0)
    + (IF \/ MapHas(run.fanInAccounts, a) /\ MapGet(run.fanInAccounts, a).temporal
          \/ MapHas(run.fanOutAccounts, a) /\ MapGet(run.fanOutAccounts, a).temporal
       THEN 150 ELSE 0)
    + (IF ratioStrictlyBetween(a) THEN 100 ELSE 0)

cyclePart(k, count) == IF hasCyclePattern(k) THEN 350 + 100 * Min2(count - 1, 3) ELSE 0

\* C26 as stated: the score of a suspicious account is its other points plus, when
\* it carries a cycle_length_* pattern, 35 + 10 x min(cycle_count - 1, 3), where
\* cycle_count is the number of rings that contain the account; without such a
\* pattern nothing is added.
C26_CyclePartCountsRings ==
    Done => \A k \in 1..Len(suspects) :
                suspects[k].suspicion_score
                    = Min2(pointsApartFromCycles(suspects[k].account_id)
                           + cyclePart(k, Cardinality({i \in 1..Len(rings) :
                                                          suspects[k].account_id \in memberSet(i)})),
                           1000)

\* C26 amended: the same, cycle_count being the number of cycle rings that contain
\* the account.
C26_CyclePartCountsCycleRings ==
    Done => \A k \in 1..Len(suspects) :
                suspects[k].suspicion_score
                    = Min2(pointsApartFromCycles(suspects[k].account_id)
                           + cyclePart(k, Cardinality({i \in ringsOfType("cycle") :
                                                          suspects[k].account_id \in memberSet(i)})),
                           1000)

\* An account in two cycle rings and a fan ring scores under the cap, beside an
\* account with no cycle pattern
C26_Witness ==
    /\ Done
    /\ \E k \in 1..Len(suspects) :
          /\ hasCyclePattern(k)
          /\ Cardinality({i \in ringsOfType("cycle") : suspects[k].account_id \in memberSet(i)}) = 2
          /\ inRingOfType(suspects[k].account_id, "fan_in")
          /\ suspects[k].suspicion_score < 1000
    /\ \E k \in 1..Len(suspects) : ~hasCyclePattern(k)

hasPattern(k, pattern) == Contains(suspects[k].detected_patterns, pattern)

\* The points of the k-th suspicious account without the temporal bonus, from its
\* own patterns
pointsApartFromTemporal(k) ==
    cyclePart(k, Cardinality({i \in ringsOfType("cycle") : suspects[k].account_id \in memberSet(i)}))
    + (IF hasPattern(k, "fan_in") THEN 250 ELSE 0)
    + (IF hasPattern(k, "fan_out") THEN 250 ELSE 0)
    + (IF hasPattern(k, "shell_network") THEN 200 ELSE 0)
    + (IF ratioStrictlyBetween(suspects[k].account_id) THEN 100 ELSE 0)

\* a is itself a hub, with ten distinct counterparties on one side, and its own
\* transfers on that side fill a 72-hour window
ownTemporalHub(a) ==
    \/ /\ uniqueSendersOf(transactions, a) >= 10
       /\ fillsWindow(transactions, incoming(transactions, a), "sender_id", HOURS_72)
    \/ /\ uniqueReceiversOf(transactions, a) >= 10
       /\ fillsWindow(transactions, outgoing(transactions, a), "receiver_id", HOURS_72)

\* C27: the score of a suspicious account includes the 15-point temporal bonus if
\* and only if the account is itself a fan-in or fan-out hub whose own temporal
\* flag is true; a counterparty in the ring of such a hub gets no temporal bonus.
C27_TemporalBonusOnlyForOwnHub ==
    Done => \A k \in 1..Len(suspects) :
                suspects[k].suspicion_score
                    = Min2(pointsApartFromTemporal(k)
                           + (IF ownTemporalHub(suspects[k].account_id) THEN 150 ELSE 0),
                           1000)

\* A temporally clustered hub scores with the bonus, and a counterparty in its ring
\* scores without it, both under the cap
C27_Witness ==
    /\ Done
    /\ \E h, c \in 1..Len(suspects) :
          /\ ownTemporalHub(suspects[h].account_id)
          /\ ~ownTemporalHub(suspects[c].account_id)
          /\ suspects[h].suspicion_score = pointsApartFromTemporal(h) + 150
          /\ suspects[h].suspicion_score < 1000
          /\ suspects[c].suspicion_score = pointsApartFromTemporal(c)
          /\ \E i \in ringsOfType("fan_in") \cup ringsOfType("fan_out") :
                /\ rings[i].member_accounts[1] = suspects[h].account_id
                /\ suspects[c].account_id \in memberSet(i)

\* The positions in fraud_rings of the rings that contain a, ascending
ringsContaining(a) ==
    SelectSeq([i \in 1..Len(rings) |-> i], LAMBDA i : a \in memberSet(i))

\* C28: the ring_id of a suspicious account is that of the lowest-numbered ring
\* whose member_accounts contains it, and the ring_ids of its node are those of all
\* the rings that contain it, in acceptance order.
C28_PrimaryRingIsEarliest ==
    Done => \A k \in 1..Len(suspects) :
                \E mine \in {ringsContaining(suspects[k].account_id)} :
                    /\ mine # <<>>
                    /\ suspects[k].ring_id = rings[mine[1]].ring_id
                    /\ nodeOf(suspects[k].account_id).ring_ids
                           = [n \in 1..Len(mine) |-> rings[mine[n]].ring_id]

\* An account in three rings, the first of which is not the first ring of the
\* result
C28_Witness ==
    /\ Done
    /\ \E k \in 1..Len(suspects) :
          /\ Len(ringsContaining(suspects[k].account_id)) >= 3
          /\ ringsContaining(suspects[k].account_id)[1] > 1
          /\ suspects[k].ring_id = rings[ringsContaining(suspects[k].account_id)[1]].ring_id
          /\ Len(nodeOf(suspects[k].account_id).ring_ids) >= 3

\* The accounts at either end of a transaction of txs
accountsOf(txs) == {txs[i].sender_id : i \in 1..Len(txs)} \cup {txs[i].receiver_id : i \in 1..Len(txs)}

\* C29: no cycle ring and no shell_network ring contains an account classified as
\* legitimate: the members of such a ring are all ends of filtered transactions, and
\* a filtered transaction has no legitimate end. Only fan_in and fan_out rings may
\* hold an account that the filtered transactions do not mention.
C29_NoLegitimateInCycleOrShellRing ==
    Done =>
        /\ \A i \in ringsOfType("cycle") \cup ringsOfType("shell_network") :
              /\ memberSet(i) \cap Range(run.legitimateAccounts) = {}
              /\ memberSet(i) \subseteq accountsOf(run.filteredTransactions)
        /\ \A i \in 1..Len(rings) :
              ~(memberSet(i) \subseteq accountsOf(run.filteredTransactions))
                  => rings[i].pattern_type \in {"fan_in", "fan_out"}

\* The batch closes a cycle of three to five accounts through a legitimate account,
\* and no cycle ring has the accounts of that cycle
C29_Witness ==
    /\ Done
    /\ \E c \in simpleCycles(transactions) :
          /\ Range(c) \cap Range(run.legitimateAccounts) # {}
          /\ \A i \in ringsOfType("cycle") : memberSet(i) # Range(c)

Searching == pc \in {"cycles", "shells"}

noRepeat(path) == \A i, j \in 1..Len(path) : i # j => path[i] # path[j]

\* Every path the searches walk has distinct accounts, and one of the cycle search
\* has at most five
SearchBounded ==
    Searching => /\ noRepeat(pathOf(run.stack))
                 /\ pc = "cycles" => Len(run.stack) <= 5

\* When the cycle search is over, what it pushed is what detectCycles returns;
\* when the shell search is over, what it pushed is what detectShellNetworks
\* returns once sorted and thinned; and what is returned in the end is what
\* analyzeTransactions returns
SearchAgrees ==
    /\ pc = "shells" => run.cycles = detectCycles(run.adj, run.allAccounts)
    /\ shellsOver =>
           uniqueChains(sortChains(run.chains))
               = detectShellNetworks(run.adj, run.accountStats, run.st.cycleNodes)
    /\ Done => /\ result = analyzeTransactions(transactions).returned
               /\ run = analyzeTransactions(transactions).locals

\* C30: analyzeTransactions, once called on a finite batch, returns, whether or
\* not the batch has self-loops, 2-cycles or cycles of more than five accounts of
\* low degree: the shell search never re-enters an account of its current path,
\* the cycle search never stands deeper than 5, and each search ends.
C30_SearchesTerminate ==
    /\ []SearchBounded
    /\ []SearchAgrees
    /\ Searching ~> Done

\* The batch has a self-loop, a 2-cycle and a 6-cycle of accounts of two
\* transactions each, and the shell search stands on the sixth account of the
\* 6-cycle, whose only neighbour is the account it started from
C30_Witness ==
    /\ pc = "shells"
    /\ hasEdge(transactions, "A", "A")
    /\ hasEdge(transactions, "A", "B") /\ hasEdge(transactions, "B", "A")
    /\ Len(run.stack) = 6
    /\ Neighbors(run.adj, run.stack[6].node) = <<run.stack[1].node>>
    /\ run.stack[6].next = 2
====
